---- MODULE Spec2Model ----
(***************************************************************************)
(* Model of examples/ai_crm/main.go: the stage-transition planner, the     *)
(* Lead Agent, the batch runner and the Apify import (payload envelope,    *)
(* dedup pass, account and lead upsert), over a record store holding       *)
(* accounts, leads, deals and activities.                                  *)
(*                                                                         *)
(* Text is modelled as a sequence of one-character strings, so that        *)
(* strings.TrimSpace, strings.ToLower and concatenation are computed.      *)
(***************************************************************************)
EXTENDS Integers, Sequences, FiniteSets, TLC

VARIABLES
    leads,       \* crm_leads: lead id -> record
    deals,       \* crm_deals, by the lead referenced: the records in insertion order
    activities,  \* crm_activities, by the lead referenced: the records in insertion order
    wk,          \* per goroutine: position and locals of a batch tick / agent run
    failBudget,  \* number of store operations that may still fail
    runBudget,   \* number of agent runs that may still begin
    hist,        \* history per lead: what the agent runs did to it
    planIn,      \* planner harness: the arguments of a direct planNextStep call
    planOut,     \* planner harness: the returned tuple
    importPc,    \* import: position in importApifyDubaiEcommerceCSuite
    candidates,  \* import: the candidates extracted from the payload
    deduped,     \* import: the list retained by the dedup pass
    accounts,    \* crm_accounts: the records in insertion order
    imp          \* import: the locals of importApifyDubaiEcommerceCSuite

vars == <<leads, deals, activities, wk, failBudget, runBudget, hist,
          planIn, planOut, importPc, candidates, deduped, accounts, imp>>

storeVars == <<leads, deals, activities, wk, failBudget, runBudget, hist>>
planVars == <<planIn, planOut>>
importVars == <<importPc, candidates, deduped, accounts, imp>>

\* the absent record (a nil pointer, an unset JSON field)
Nil == [nil |-> TRUE]

----------------------------------------------------------------------------
(* Text helpers                                                            *)

Space == " "

\* strings.TrimSpace
RECURSIVE TrimLeft(_)
TrimLeft(s) ==
    IF s = <<>> THEN <<>>
    ELSE IF Head(s) = Space THEN TrimLeft(Tail(s)) ELSE s

RECURSIVE TrimRight(_)
TrimRight(s) ==
    IF s = <<>> THEN <<>>
    ELSE IF s[Len(s)] = Space THEN TrimRight(SubSeq(s, 1, Len(s) - 1)) ELSE s

TrimSpace(s) == TrimRight(TrimLeft(s))

\* strings.ToLower, on the letters of the model's alphabet
LowerChar(c) ==
    CASE c = "A" -> "a"
      [] c = "B" -> "b"
      [] c = "C" -> "c"
      [] OTHER -> c

ToLower(s) == [i \in 1..Len(s) |-> LowerChar(s[i])]

There == <<"t", "h", "e", "r", "e">>

safe(s) == IF TrimSpace(s) = <<>> THEN There ELSE TrimSpace(s)

----------------------------------------------------------------------------
(* Stage Transition Planner                                                *)

Stages == {"new", "outreached", "replied", "qualified", "proposal", "won", "lost"}

\* a planner that sends an outreached lead to replied instead of qualified
planNextStepViaReplied(lead, stage) ==
    CASE stage = "new" ->
            [action |-> "draft_outreach",
             message |-> <<"Hi %s, I noticed %s", safe(lead.name), safe(lead.company)>>,
             newStage |-> "outreached", activityType |-> "outreach_email"]
      [] stage = "outreached" ->
            [action |-> "follow_up",
             message |-> <<"Follow up with %s at %s", safe(lead.name), safe(lead.company)>>,
             newStage |-> "replied", activityType |-> "note"]
      [] stage = "replied" ->
            [action |-> "qualify",
             message |-> <<"%s replied", safe(lead.name)>>,
             newStage |-> "qualified", activityType |-> "note"]
      [] stage = "qualified" ->
            [action |-> "proposal",
             message |-> <<"Create a proposal for %s (%s)", safe(lead.name), safe(lead.company)>>,
             newStage |-> "proposal", activityType |-> "note"]
      [] stage = "proposal" ->
            [action |-> "close",
             message |-> <<"move %s to won", safe(lead.name)>>,
             newStage |-> "won", activityType |-> "status_change"]
      [] OTHER ->
            [action |-> "noop",
             message |-> <<"No action planned.">>,
             newStage |-> stage, activityType |-> "note"]

planNextStep(lead, stage) ==
    CASE stage = "new" ->
            [action |-> "draft_outreach",
             message |-> <<"Hi %s, I noticed %s", safe(lead.name), safe(lead.company)>>,
             newStage |-> "outreached", activityType |-> "outreach_email"]
      [] stage = "outreached" ->
            [action |-> "follow_up",
             message |-> <<"Follow up with %s at %s", safe(lead.name), safe(lead.company)>>,
             newStage |-> "qualified", activityType |-> "note"]
      [] stage = "replied" ->
            [action |-> "qualify",
             message |-> <<"%s replied", safe(lead.name)>>,
             newStage |-> "qualified", activityType |-> "note"]
      [] stage = "qualified" ->
            [action |-> "proposal",
             message |-> <<"Create a proposal for %s (%s)", safe(lead.name), safe(lead.company)>>,
             newStage |-> "proposal", activityType |-> "note"]
      [] stage = "proposal" ->
            [action |-> "close",
             message |-> <<"move %s to won", safe(lead.name)>>,
             newStage |-> "won", activityType |-> "status_change"]
      [] OTHER ->
            [action |-> "noop",
             message |-> <<"No action planned.">>,
             newStage |-> stage, activityType |-> "note"]

----------------------------------------------------------------------------
(* Record store                                                            *)

NumLeads == 2          \* leads in the store of the sequential runs
NumConcLeads == 1      \* leads in the store of the overlapping runs
MaxFailures == 1       \* store operations that may fail in one behaviour
MaxLimit == 1          \* largest explicit batch limit tried
MaxHist == 5           \* successful runs remembered per lead
MaxRuns == 3           \* agent runs begun in a behaviour of the sequential runs
NumFreshLeads == 1     \* leads in the store of the runs followed one by one
MaxFreshRuns == 5      \* agent runs begun in a behaviour of those
MaxConcRuns == 3       \* agent runs begun in a behaviour of the overlapping runs

MissingLead == 0       \* an id that names no lead
Workers == {1, 2}
DefaultLimit == 5

\* position in the pipeline order new < outreached < replied < qualified < proposal < won
rank(stage) ==
    CASE stage = "new" -> 0
      [] stage = "outreached" -> 1
      [] stage = "replied" -> 2
      [] stage = "qualified" -> 3
      [] stage = "proposal" -> 4
      [] stage = "won" -> 5
      [] OTHER -> -1

MaxOf(S) == CHOOSE x \in S : \A y \in S : y <= x

\* the largest "updated" timestamp among the leads (0 in an empty collection)
MaxUpdated(ls) == IF DOMAIN ls = {} THEN 0 ELSE MaxOf({ls[l].updated : l \in DOMAIN ls})

\* timestamps are kept as their order: the k-th smallest distinct value is k
Renumber(ls) ==
    [l \in DOMAIN ls |->
        [ls[l] EXCEPT !.updated =
            Cardinality({ls[k].updated : k \in {j \in DOMAIN ls : ls[j].updated < ls[l].updated}}) + 1]]

\* app.Save(lead): the whole record is written and the autodate field
\* "updated" is set to the time t of the save
SaveLeadRecord(ls, id, rec, t) ==
    Renumber([l \in DOMAIN ls \cup {id} |->
                 IF l = id THEN [rec EXCEPT !.updated = t] ELSE ls[l]])

\* the time a save carries: later than every save before it
SaveTimes(ls) == {MaxUpdated(ls) + 1}

\* a lookup that never finds the deal
FindDealByLeadNever(ds, id) == 0

\* app.FindFirstRecordByFilter(collectionDeals, "lead={:lead}"): index of the
\* first deal of the lead, 0 for sql.ErrNoRows
FindDealByLead(ds, id) == IF Len(ds[id]) > 0 THEN 1 ELSE 0

DealsOf(ds, id) == {i \in 1..Len(ds[id]) : ds[id][i].lead = id}
ActivitiesOf(as, id) == {i \in 1..Len(as[id]) : as[id][i].lead = id}

\* the filter "stage != 'won' && stage != 'lost'"
Eligible(ls) == {l \in DOMAIN ls : ls[l].stage # "won" /\ ls[l].stage # "lost"}

MinOf2(a, b) == IF a < b THEN a ELSE b

\* a query that returns the longest-stalled leads first
FindPendingLeadsOldestFirst(ls, limit) ==
    LET E == Eligible(ls)
        n == MinOf2(limit, Cardinality(E))
    IN  {s \in [1..n -> E] :
            /\ \A i, j \in 1..n : i < j => s[i] # s[j] /\ ls[s[i]].updated <= ls[s[j]].updated
            /\ \A l \in E : (\A i \in 1..n : s[i] # l) =>
                    \A i \in 1..n : ls[l].updated >= ls[s[i]].updated}

\* app.FindRecordsByFilter(..., "-updated", limit, 0): the results the query
\* can return; rows with equal timestamps come in any order
FindPendingLeads(ls, limit) ==
    LET E == Eligible(ls)
        n == MinOf2(limit, Cardinality(E))
    IN  {s \in [1..n -> E] :
            /\ \A i, j \in 1..n : i < j => s[i] # s[j] /\ ls[s[i]].updated >= ls[s[j]].updated
            /\ \A l \in E : (\A i \in 1..n : s[i] # l) =>
                    \A i \in 1..n : ls[l].updated <= ls[s[i]].updated}

----------------------------------------------------------------------------
(* Initial store                                                           *)

LeadName(l) == IF l = 2 THEN <<Space>> ELSE <<"a">>
LeadCompany(l) == IF l = 1 THEN <<"B", "c">> ELSE <<>>

NewDealSuffix == <<Space, "/", Space, "N", "e", "w", Space, "d", "e", "a", "l">>
StarterSuffix == <<Space, "/", Space, "S", "t", "a", "r", "t", "e", "r">>
SeedAmount == 1000

\* how a lead came to be in the store: created by the import (stage new, no
\* deal), by the demo seeding (here in stage replied, with its deal), or
\* imported and then marked lost by an operator
LeadOrigins == {"imported", "seeded", "lost"}

InitLead(l, origin, upd) ==
    [name |-> LeadName(l), company |-> LeadCompany(l),
     stage |-> CASE origin = "imported" -> "new"
                 [] origin = "seeded" -> "replied"
                 [] OTHER -> "lost",
     email |-> <<>>, account |-> 0, job_title |-> <<>>, phone |-> <<>>,
     linkedin |-> <<>>, score |-> 0,
     agent_state |-> Nil, updated |-> upd]

SeedDeal(l) ==
    [title |-> LeadCompany(l) \o StarterSuffix, lead |-> l,
     stage |-> "qualification", amount |-> SeedAmount]

SeedDeals(origin, n) ==
    [l \in 1..n |-> IF origin[l] = "seeded" THEN <<SeedDeal(l)>> ELSE <<>>]

\* initial "updated" order: ascending by id, descending by id, or all leads
\* written in the same instant
InitUpdated(n) == {[l \in 1..n |-> l], [l \in 1..n |-> n + 1 - l], [l \in 1..n |-> 1]}

IdleWorker ==
    [pc |-> "idle", kind |-> "none", limit |-> 0, selected |-> <<>>, idx |-> 0,
     processed |-> 0, batchErr |-> FALSE, leadId |-> MissingLead, lead |-> Nil,
     oldStage |-> "", plan |-> Nil, dealCreated |-> FALSE, activityId |-> 0,
     dealIdx |-> 0, deal |-> Nil, markErr |-> FALSE, res |-> Nil,
     log |-> <<>>, atSelect |-> <<>>, atLoad |-> Nil, nwrites |-> 0, planned |-> FALSE,
     faults |-> 0]

\* runs are remembered for a lead only while it is tracked: from the initial
\* state on, when asked for, until a run on it fails
NoHistory(tracked) ==
    [trans |-> <<>>, saveFails |-> 0, runs |-> <<>>, tracked |-> tracked, failed |-> Nil]

InitStore(n, budget, runs, tracked) ==
    /\ \E origin \in [1..n -> LeadOrigins] : \E upd \in InitUpdated(n) :
          /\ leads = Renumber([l \in 1..n |-> InitLead(l, origin[l], upd[l])])
          /\ deals = SeedDeals(origin, n)
    /\ activities = [l \in 1..n |-> <<>>]
    /\ wk = [w \in Workers |-> IdleWorker]
    /\ failBudget = budget
    /\ runBudget = runs
    /\ hist = [l \in 1..n |-> NoHistory(tracked)]

InitPlanIdle == planIn = Nil /\ planOut = Nil
\* the locals of one import call, and what the call found when it began
IdleImport ==
    [i |-> 0, createdLeads |-> 0, updatedLeads |-> 0, skipped |-> 0,
     acc |-> 0, accCreated |-> FALSE, leadId |-> 0, lead |-> Nil, created |-> FALSE,
     res |-> Nil, calls |-> 0, repeat |-> FALSE, fromEmpty |-> FALSE,
     atStart |-> Nil, log |-> <<>>, failedAt |-> "",
     payload |-> Nil, items |-> <<>>]

InitImportIdle ==
    /\ importPc = "idle" /\ candidates = <<>> /\ deduped = <<>>
    /\ accounts = <<>> /\ imp = IdleImport

----------------------------------------------------------------------------
(* Lead Agent: runLeadAgent, one store operation per step                  *)

ErrResult == [ok |-> FALSE]

\* a lead record read without a stage counts as new
EffectiveStage(stage) == IF stage = "" THEN "new" ELSE stage

\* a short-circuit that forgets the stage lost
IsFinalizedWonOnly(oldStage) == oldStage = "won"

IsFinalized(oldStage) == oldStage = "won" \/ oldStage = "lost"

\* a deal ensured one stage early
NeedsDealEarly(newStage) ==
    newStage = "outreached" \/ newStage = "qualified" \/ newStage = "proposal" \/ newStage = "won"

NeedsDeal(newStage) == newStage = "qualified" \/ newStage = "proposal" \/ newStage = "won"

FinalizedResult(id, oldStage) ==
    [ok |-> TRUE, leadId |-> id, oldStage |-> oldStage, newStage |-> oldStage,
     action |-> "noop", message |-> <<"Lead already finalized.">>,
     activityId |-> 0, dealCreated |-> FALSE]

RunResult(r) ==
    [ok |-> TRUE, leadId |-> r.leadId, oldStage |-> r.oldStage, newStage |-> r.plan.newStage,
     action |-> r.plan.action, message |-> r.plan.message,
     activityId |-> r.activityId, dealCreated |-> r.dealCreated]

\* a deal that does not reference its lead
NewDealUnlinked(lead, id) ==
    [title |-> safe(lead.company) \o NewDealSuffix, lead |-> MissingLead,
     stage |-> "qualification", amount |-> 0]

\* a deal created in the stage after qualification
NewDealInProposal(lead, id) ==
    [title |-> safe(lead.company) \o NewDealSuffix, lead |-> id,
     stage |-> "proposal", amount |-> 0]

NewDeal(lead, id) ==
    [title |-> safe(lead.company) \o NewDealSuffix, lead |-> id,
     stage |-> "qualification", amount |-> 0]

NewActivity(id, typ, content, metadata) ==
    [type |-> typ, lead |-> id, content |-> content, metadata |-> metadata]

\* metadata that names the stages the wrong way round
TransitionMetaSwapped(action, oldStage, newStage) ==
    [agentAction |-> action, fromStage |-> newStage, toStage |-> oldStage]

\* the metadata of the Activity of a run
TransitionMeta(action, oldStage, newStage) ==
    [agentAction |-> action, fromStage |-> oldStage, toStage |-> newStage]

AgentState(r) ==
    [last_action |-> r.plan.action, last_message |-> r.plan.message,
     old_stage |-> r.oldStage, new_stage |-> r.plan.newStage]

StoreSnapshot == [leads |-> leads, deals |-> deals, activities |-> activities]

\* app.FindRecordById, the terminal short-circuit and the planner call
LoadLead(w) ==
    /\ wk[w].pc = "load"
    /\ runBudget > 0
    /\ runBudget' = runBudget - 1
    /\ LET id == wk[w].leadId IN
        IF id \notin DOMAIN leads
        THEN wk' = [wk EXCEPT ![w] = [@ EXCEPT !.pc = "ret", !.res = ErrResult,
                                               !.atLoad = StoreSnapshot]]
        ELSE LET lead == leads[id]
                 oldStage == EffectiveStage(lead.stage)
             IN  IF IsFinalized(oldStage)
                 THEN wk' = [wk EXCEPT ![w] = [@ EXCEPT !.pc = "ret", !.lead = lead,
                                 !.oldStage = oldStage, !.atLoad = StoreSnapshot,
                                 !.res = FinalizedResult(id, oldStage)]]
                 ELSE LET p == planNextStep(lead, oldStage) IN
                      wk' = [wk EXCEPT ![w] = [@ EXCEPT
                                 !.pc = IF NeedsDeal(p.newStage) THEN "dealFind" ELSE "activity",
                                 !.lead = lead, !.oldStage = oldStage, !.plan = p,
                                 !.planned = TRUE, !.atLoad = StoreSnapshot]]
    /\ UNCHANGED <<leads, deals, activities, failBudget, hist, planVars, importVars>>

\* ensureDealForLead: the lookup
EnsureDealFind(w) ==
    /\ wk[w].pc = "dealFind"
    /\ wk' = [wk EXCEPT ![w] = [@ EXCEPT
                 !.pc = IF FindDealByLead(deals, wk[w].leadId) # 0 THEN "activity" ELSE "dealSave"]]
    /\ UNCHANGED <<leads, deals, activities, failBudget, runBudget, hist, planVars, importVars>>

\* ensureDealForLead: the creation after sql.ErrNoRows
EnsureDealSave(w) ==
    /\ wk[w].pc = "dealSave"
    /\ deals' = [deals EXCEPT ![wk[w].leadId] = Append(@, NewDeal(wk[w].lead, wk[w].leadId))]
    /\ wk' = [wk EXCEPT ![w] = [@ EXCEPT !.pc = "activity", !.dealCreated = TRUE,
                                           !.nwrites = @ + 1]]
    /\ UNCHANGED <<leads, activities, failBudget, runBudget, hist, planVars, importVars>>

\* createActivity
CreateActivity(w) ==
    /\ wk[w].pc = "activity"
    /\ activities' = [activities EXCEPT ![wk[w].leadId] = Append(@,
            NewActivity(wk[w].leadId, wk[w].plan.activityType, wk[w].plan.message,
                        TransitionMeta(wk[w].plan.action, wk[w].oldStage,
                                       wk[w].plan.newStage)))]
    /\ wk' = [wk EXCEPT ![w] = [@ EXCEPT !.pc = "saveLead",
                                           !.activityId = Len(activities[wk[w].leadId]) + 1,
                                           !.nwrites = @ + 1]]
    /\ UNCHANGED <<leads, deals, failBudget, runBudget, hist, planVars, importVars>>

\* lead.Set("stage"), lead.Set("agent_state"), app.Save(lead)
SaveLead(w) ==
    /\ wk[w].pc = "saveLead"
    /\ LET id == wk[w].leadId
           rec == [wk[w].lead EXCEPT !.stage = wk[w].plan.newStage,
                                     !.agent_state = AgentState(wk[w])]
       IN  /\ \E t \in SaveTimes(leads) : leads' = SaveLeadRecord(leads, id, rec, t)
           /\ hist' = [hist EXCEPT ![id].trans = Append(@,
                          [from |-> leads[id].stage, old |-> wk[w].oldStage,
                           to |-> wk[w].plan.newStage, act |-> wk[w].activityId])]
           /\ wk' = [wk EXCEPT ![w] = [@ EXCEPT
                          !.pc = IF wk[w].plan.newStage = "won" THEN "markFind" ELSE "ret",
                          !.lead = rec, !.nwrites = @ + 1,
                          !.res = IF wk[w].plan.newStage = "won" THEN Nil ELSE RunResult(wk[w])]]
    /\ UNCHANGED <<deals, activities, failBudget, runBudget, planVars, importVars>>

\* markDealStage: the lookup; its error is discarded by the caller
MarkDealFind(w) ==
    /\ wk[w].pc = "markFind"
    /\ LET i == FindDealByLead(deals, wk[w].leadId) IN
        wk' = [wk EXCEPT ![w] =
                  IF i = 0
                  THEN [@ EXCEPT !.pc = "ret", !.markErr = TRUE, !.res = RunResult(wk[w])]
                  ELSE [@ EXCEPT !.pc = "markSave", !.dealIdx = i,
                                 !.deal = deals[wk[w].leadId][i]]]
    /\ UNCHANGED <<leads, deals, activities, failBudget, runBudget, hist, planVars, importVars>>

\* markDealStage: deal.Set("stage", stage), app.Save(deal)
MarkDealSave(w) ==
    /\ wk[w].pc = "markSave"
    /\ deals' = [deals EXCEPT ![wk[w].leadId][wk[w].dealIdx] =
                                    [wk[w].deal EXCEPT !.stage = "won"]]
    /\ wk' = [wk EXCEPT ![w] = [@ EXCEPT !.pc = "ret", !.nwrites = @ + 1,
                                           !.res = RunResult(wk[w])]]
    /\ UNCHANGED <<leads, activities, failBudget, runBudget, hist, planVars, importVars>>

\* the store operation the goroutine is about to perform returns an error
\* (other than sql.ErrNoRows)
StoreFail(w) ==
    /\ failBudget > 0
    /\ failBudget' = failBudget - 1
    /\ \/ /\ wk[w].pc = "select"
          /\ wk' = [wk EXCEPT ![w] = [@ EXCEPT !.pc = "done", !.batchErr = TRUE,
                                                 !.atSelect = leads, !.faults = @ + 1]]
          /\ hist' = hist
       \/ /\ wk[w].pc \in {"load", "dealFind", "dealSave", "activity"}
          /\ wk' = [wk EXCEPT ![w] = [@ EXCEPT !.pc = "ret", !.res = ErrResult,
                          !.faults = @ + 1,
                          !.atLoad = IF wk[w].pc = "load" THEN StoreSnapshot ELSE @]]
          /\ hist' = hist
       \/ /\ wk[w].pc = "saveLead"
          /\ wk' = [wk EXCEPT ![w] = [@ EXCEPT !.pc = "ret", !.res = ErrResult,
                                                 !.faults = @ + 1]]
          /\ hist' = [hist EXCEPT ![wk[w].leadId].saveFails = @ + 1]
       \/ /\ wk[w].pc \in {"markFind", "markSave"}
          /\ wk' = [wk EXCEPT ![w] = [@ EXCEPT !.pc = "ret", !.markErr = TRUE,
                                                 !.faults = @ + 1,
                                                 !.res = RunResult(wk[w])]]
          /\ hist' = hist
    /\ UNCHANGED <<leads, deals, activities, runBudget, planVars, importVars>>

----------------------------------------------------------------------------
(* Batch Runner: runAgentForPendingLeads, and the manual run endpoint      *)

CronLimit == 5         \* the limit the recurring job passes

Limits == {-1, 0, CronLimit} \cup 1..MaxLimit

\* a default applied to negative limits only
EffectiveLimitNegativeOnly(limit) == IF limit < 0 THEN DefaultLimit ELSE limit

EffectiveLimit(limit) == IF limit <= 0 THEN DefaultLimit ELSE limit

\* a cron tick or another caller enters runAgentForPendingLeads(limit)
StartBatch(w, limit) ==
    /\ wk[w].pc = "idle"
    /\ wk' = [wk EXCEPT ![w] = [IdleWorker EXCEPT !.pc = "select", !.kind = "batch",
                                                  !.limit = limit]]
    /\ UNCHANGED <<leads, deals, activities, failBudget, runBudget, hist, planVars, importVars>>

\* POST /agents/run/{leadId} enters runLeadAgent(leadId)
StartManual(w, id) ==
    /\ wk[w].pc = "idle"
    /\ wk' = [wk EXCEPT ![w] = [IdleWorker EXCEPT !.pc = "load", !.kind = "manual",
                                                  !.leadId = id]]
    /\ UNCHANGED <<leads, deals, activities, failBudget, runBudget, hist, planVars, importVars>>

\* the FindRecordsByFilter query of the batch
SelectPending(w) ==
    /\ wk[w].pc = "select"
    /\ \E sel \in FindPendingLeads(leads, EffectiveLimit(wk[w].limit)) :
          wk' = [wk EXCEPT ![w] = [@ EXCEPT
                     !.pc = IF Len(sel) = 0 THEN "done" ELSE "load",
                     !.selected = sel, !.idx = 1, !.atSelect = leads,
                     !.leadId = IF Len(sel) = 0 THEN MissingLead ELSE sel[1]]]
    /\ UNCHANGED <<leads, deals, activities, failBudget, runBudget, hist, planVars, importVars>>

\* a loop that stops at the first failed run
LoopStopsOnError(ok, idx, n) == ok /\ idx < n

\* "for _, lead := range leads": an error is logged and the loop continues
LoopContinues(ok, idx, n) == idx < n

\* processed++ after a run without error
CountProcessed(processed, ok) == IF ok THEN processed + 1 ELSE processed

RunSummary(r) ==
    [oldStage |-> r.res.oldStage, newStage |-> r.res.newStage, action |-> r.res.action,
     dealCreated |-> r.res.dealCreated, markErr |-> r.markErr,
     nActsBefore |-> Len(r.atLoad.activities[r.leadId]),
     nDealsBefore |-> Len(r.atLoad.deals[r.leadId]),
     nActs |-> Cardinality(ActivitiesOf(activities, r.leadId)),
     nDeals |-> Cardinality(DealsOf(deals, r.leadId)),
     dealWon |-> \E i \in DealsOf(deals, r.leadId) : deals[r.leadId][i].stage = "won"]

\* what a run that returned an error had planned and done
FailedRun(r) ==
    [planned |-> r.planned, oldStage |-> r.oldStage,
     newStage |-> IF r.planned THEN r.plan.newStage ELSE "",
     dealCreated |-> r.dealCreated]

\* bookkeeping of what the runs did to each lead; the last failed run is kept,
\* until the next run that succeeds, for the leads followed from the start
Record(r) ==
    IF r.leadId \notin DOMAIN hist THEN hist
    ELSE IF r.res.ok
         THEN [hist EXCEPT ![r.leadId].runs =
                   IF Len(@) < MaxHist /\ hist[r.leadId].tracked
                   THEN Append(@, RunSummary(r)) ELSE @,
                           ![r.leadId].failed = Nil]
         ELSE [hist EXCEPT ![r.leadId].tracked = FALSE, ![r.leadId].runs = <<>>,
                           ![r.leadId].failed =
                               IF hist[r.leadId].tracked \/ @ # Nil THEN FailedRun(r) ELSE @]

\* runLeadAgent returns: to the HTTP handler, or into the loop of the batch,
\* which counts a success, skips a failure and goes on with the next lead
ReturnRun(w) ==
    /\ wk[w].pc = "ret"
    /\ hist' = Record(wk[w])
    /\ IF wk[w].kind = "manual"
       THEN wk' = [wk EXCEPT ![w] = [@ EXCEPT !.pc = "done"]]
       ELSE LET r == wk[w]
                more == LoopContinues(r.res.ok, r.idx, Len(r.selected))
            IN  wk' = [wk EXCEPT ![w] = [IdleWorker EXCEPT
                          !.pc = IF more THEN "load" ELSE "done",
                          !.kind = "batch", !.limit = r.limit, !.selected = r.selected,
                          !.atSelect = r.atSelect, !.faults = r.faults,
                          !.idx = r.idx + 1,
                          !.leadId = IF more THEN r.selected[r.idx + 1] ELSE MissingLead,
                          !.processed = CountProcessed(r.processed, r.res.ok),
                          !.log = Append(r.log, [lead |-> r.leadId, ok |-> r.res.ok])]]
    /\ UNCHANGED <<leads, deals, activities, failBudget, runBudget, planVars, importVars>>

\* the caller has its answer; the goroutine ends
Finish(w) ==
    /\ wk[w].pc = "done"
    /\ wk' = [wk EXCEPT ![w] = IdleWorker]
    /\ UNCHANGED <<leads, deals, activities, failBudget, runBudget, hist, planVars, importVars>>

AgentStep(w) ==
    \/ LoadLead(w)
    \/ EnsureDealFind(w)
    \/ EnsureDealSave(w)
    \/ CreateActivity(w)
    \/ SaveLead(w)
    \/ MarkDealFind(w)
    \/ MarkDealSave(w)
    \/ SelectPending(w)
    \/ ReturnRun(w)
    \/ Finish(w)

\* Runs that do not overlap: one goroutine at a time
SeqWorkers == {1}

InitSeq == InitStore(NumLeads, MaxFailures, MaxRuns, FALSE) /\ InitPlanIdle /\ InitImportIdle

NextSeq ==
    \E w \in SeqWorkers :
        \/ \E limit \in Limits : StartBatch(w, limit)
        \/ \E id \in DOMAIN leads \cup {MissingLead} : StartManual(w, id)
        \/ AgentStep(w)
        \/ StoreFail(w)

SpecSeq == InitSeq /\ [][NextSeq]_vars

\* Runs that do not overlap, followed run by run from the initial state
InitFresh == InitStore(NumFreshLeads, MaxFailures, MaxFreshRuns, TRUE) /\ InitPlanIdle /\ InitImportIdle

SpecFresh == InitFresh /\ [][NextSeq]_vars

\* Overlapping runs: cron ticks and HTTP requests each in their own goroutine;
\* here every store operation succeeds
InitConc == InitStore(NumConcLeads, 0, MaxConcRuns, FALSE) /\ InitPlanIdle /\ InitImportIdle

NextConc ==
    \E w \in Workers :
        \/ StartBatch(w, CronLimit)
        \/ \E id \in DOMAIN leads \cup {MissingLead} : StartManual(w, id)
        \/ AgentStep(w)

SpecConc == InitConc /\ [][NextConc]_vars

----------------------------------------------------------------------------
(* The planner called directly, on any stage value                         *)

PlanStages == Stages \cup {"", "unknown"}
PlanNames == {<<>>, <<Space>>, <<"a">>, <<Space, "A", Space>>}
PlanCompanies == {<<>>, <<"B", "c">>, <<Space, Space>>}

InitStoreIdle ==
    /\ leads = <<>> /\ deals = <<>> /\ activities = <<>>
    /\ wk = [w \in Workers |-> IdleWorker]
    /\ failBudget = 0 /\ runBudget = 0 /\ hist = <<>>

InitPlan ==
    /\ planIn \in [stage : PlanStages, name : PlanNames, company : PlanCompanies]
    /\ planOut = Nil
    /\ InitStoreIdle
    /\ InitImportIdle

CallPlan ==
    /\ planOut = Nil
    /\ planOut' = planNextStep([name |-> planIn.name, company |-> planIn.company], planIn.stage)
    /\ UNCHANGED <<planIn, storeVars, importVars>>

NextPlan == CallPlan

SpecPlan == InitPlan /\ [][NextPlan]_vars

\* the transition table: stage -> <<action, nextStage, activityType>>
TableRow(stage) ==
    CASE stage = "new" -> <<"draft_outreach", "outreached", "outreach_email">>
      [] stage = "outreached" -> <<"follow_up", "qualified", "note">>
      [] stage = "replied" -> <<"qualify", "qualified", "note">>
      [] stage = "qualified" -> <<"proposal", "proposal", "note">>
      [] stage = "proposal" -> <<"close", "won", "status_change">>
      [] OTHER -> <<"noop", stage, "note">>

\* C1: planNextStep returns, for every stage value, the (action, nextStage,
\* activityType) of the transition table; for every stage outside the five
\* mapped ones (won, lost, the empty stage, an unknown one) it returns noop,
\* note and the input stage.
C1_PlanMatchesTable ==
    planOut # Nil =>
        /\ <<planOut.action, planOut.newStage, planOut.activityType>> = TableRow(planIn.stage)
        /\ planIn.stage \notin {"new", "outreached", "replied", "qualified", "proposal"} =>
              /\ planOut.action = "noop"
              /\ planOut.activityType = "note"
              /\ planOut.newStage = planIn.stage

C1_Witness ==
    /\ planOut # Nil
    /\ planIn.stage = "outreached"
    /\ planOut.newStage = "qualified"

----------------------------------------------------------------------------
(* Claims about runs that do not overlap (SpecSeq, SpecFresh)              *)

\* the run of goroutine w has returned and had read the lead it names
Returned(w) == wk[w].pc = "ret" /\ wk[w].lead # Nil

FreshRuns(l) ==
    IF /\ Len(hist[l].runs) > 0
       /\ hist[l].runs[1].oldStage = "new"
       /\ hist[l].runs[1].nDealsBefore = 0
       /\ hist[l].runs[1].nActsBefore = 0
    THEN hist[l].runs ELSE <<>>

\* C3 as stated: five runs, five activities, the deal won only after the fifth
C3_FiveRunsFiveActivities ==
    \A l \in DOMAIN hist :
        Len(FreshRuns(l)) = 5 =>
            LET r == FreshRuns(l) IN
            /\ r[5].newStage = "won"
            /\ r[5].nDeals = 1
            /\ r[5].nActs = 5
            /\ r[5].dealWon
            /\ \A k \in 1..4 : ~r[k].dealWon

\* C3 (amended): from a new lead with no deal and no activity, the k-th
\* successful run moves new -> outreached -> qualified -> proposal -> won for
\* k = 1..4; the one Deal is created by the second run (resulting stage
\* qualified); there is one Activity per run up to the fourth, four in all; the
\* Deal is won after no run before the fourth, and after the fourth unless its
\* update failed; every later run is a no-op.
C3_FourRunsToWon ==
    \A l \in DOMAIN hist :
        LET r == FreshRuns(l) IN
        \A k \in 1..Len(r) :
            /\ k = 1 => r[k].oldStage = "new" /\ r[k].newStage = "outreached"
            /\ k = 2 => r[k].oldStage = "outreached" /\ r[k].newStage = "qualified"
            /\ k = 3 => r[k].oldStage = "qualified" /\ r[k].newStage = "proposal"
            /\ k = 4 => r[k].oldStage = "proposal" /\ r[k].newStage = "won"
            /\ k > 4 => r[k].oldStage = "won" /\ r[k].newStage = "won" /\ r[k].action = "noop"
            /\ r[k].dealCreated = (k = 2)
            /\ r[k].nDeals = (IF k >= 2 THEN 1 ELSE 0)
            /\ r[k].nActs = (IF k <= 4 THEN k ELSE 4)
            /\ k < 4 => ~r[k].dealWon
            /\ k = 4 => (r[k].dealWon = ~r[k].markErr)
            /\ k > 4 => (r[k].dealWon = r[4].dealWon)

C3_Witness ==
    \E l \in DOMAIN hist :
        /\ Len(FreshRuns(l)) = 5
        /\ FreshRuns(l)[4].dealWon
        /\ FreshRuns(l)[5].nActs = 4

Quiescent == \A w \in Workers : wk[w].pc = "idle"

\* the k-th persisted transition of lead l has its own Activity, which names
\* the stages of that transition
TransitionHasActivity(l, k) ==
    LET t == hist[l].trans[k] IN
    /\ t.act \in 1..Len(activities[l])
    /\ activities[l][t.act].lead = l
    /\ activities[l][t.act].metadata.fromStage = t.from
    /\ activities[l][t.act].metadata.toStage = t.to
    /\ \A j \in 1..Len(hist[l].trans) : j # k => hist[l].trans[j].act # t.act

\* C4 as stated: between runs, as many Activities as persisted transitions
C4_ActivitiesEqualTransitions ==
    Quiescent =>
        \A l \in DOMAIN hist :
            /\ Len(activities[l]) = Len(hist[l].trans)
            /\ \A k \in 1..Len(hist[l].trans) : TransitionHasActivity(l, k)

\* C4 (amended): every persisted transition has exactly one Activity written
\* by its run, naming its fromStage and toStage; the Activities of a lead are
\* those, plus one for each run whose save of the lead failed after the
\* Activity was written (plus that of a run still before its save).
C4_ActivitiesPerTransition ==
    \A l \in DOMAIN hist :
        /\ Len(activities[l]) = Len(hist[l].trans) + hist[l].saveFails
               + Cardinality({w \in Workers : wk[w].pc = "saveLead" /\ wk[w].leadId = l})
        /\ \A k \in 1..Len(hist[l].trans) : TransitionHasActivity(l, k)

C4_Witness ==
    /\ Quiescent
    /\ \E l \in DOMAIN hist :
          /\ hist[l].saveFails = 1
          /\ Len(hist[l].trans) = 2
          /\ Len(activities[l]) = 3

\* C5: at most one Deal per Lead; a run adds a Deal only when its resulting
\* stage is qualified, proposal or won and the lead had none, and the new Deal
\* starts in stage qualification; a run that finds a Deal adds none and leaves
\* its title and amount as they were; a run to outreached adds none.
C5_OneDealPerLead ==
    /\ \A l \in DOMAIN deals : Len(deals[l]) <= 1
    /\ \A w \in Workers :
          /\ (wk[w].pc \in {"activity", "saveLead"} /\ wk[w].dealCreated) =>
                deals[wk[w].leadId][Len(deals[wk[w].leadId])].stage = "qualification"
          /\ Returned(w) =>
                LET l == wk[w].leadId
                    before == wk[w].atLoad.deals
                IN  /\ \A k \in DOMAIN deals : k # l => deals[k] = before[k]
                    /\ wk[w].dealCreated = (Len(deals[l]) > Len(before[l]))
                    /\ wk[w].dealCreated =>
                          /\ wk[w].plan.newStage \in {"qualified", "proposal", "won"}
                          /\ before[l] = <<>>
                          /\ Len(deals[l]) = 1
                          /\ deals[l][1].lead = l
                    /\ \A i \in 1..Len(before[l]) :
                          /\ deals[l][i].title = before[l][i].title
                          /\ deals[l][i].amount = before[l][i].amount
                          /\ deals[l][i].lead = l
                    /\ (wk[w].plan # Nil /\ wk[w].plan.newStage = "outreached") =>
                          deals[l] = before[l]

C5_Witness ==
    \E w \in Workers :
        /\ Returned(w)
        /\ wk[w].res.ok
        /\ wk[w].dealCreated
        /\ wk[w].res.newStage = "qualified"
        /\ \E l \in DOMAIN deals : l # wk[w].leadId /\ Len(deals[l]) = 1

BatchDone(w) == wk[w].pc = "done" /\ wk[w].kind = "batch"

\* C8: a batch without store failures runs the agent once on each of the
\* min(limit, E) most recently updated leads whose stage is neither won nor
\* lost, most recent first, on no other lead, and returns min(limit, E); a
\* limit <= 0 counts as 5.
C8_BatchSelection ==
    \A w \in Workers :
        (BatchDone(w) /\ wk[w].faults = 0) =>
            LET before == wk[w].atSelect
                E == {l \in DOMAIN before : before[l].stage \notin {"won", "lost"}}
                lim == IF wk[w].limit <= 0 THEN 5 ELSE wk[w].limit
                n == IF lim < Cardinality(E) THEN lim ELSE Cardinality(E)
                ran == wk[w].log
            IN  /\ wk[w].processed = n
                /\ ~wk[w].batchErr
                /\ Len(ran) = n
                /\ \A i \in 1..n : ran[i].lead \in E /\ ran[i].ok
                /\ \A i, j \in 1..n : i < j =>
                      /\ ran[i].lead # ran[j].lead
                      /\ before[ran[i].lead].updated >= before[ran[j].lead].updated
                /\ \A l \in E : (\A i \in 1..n : ran[i].lead # l) =>
                      \A i \in 1..n : before[l].updated <= before[ran[i].lead].updated

C8_Witness ==
    \E w \in Workers :
        /\ BatchDone(w) /\ wk[w].faults = 0
        /\ wk[w].limit = 1
        /\ wk[w].processed = 1
        /\ \E l \in DOMAIN wk[w].atSelect :
              /\ l # wk[w].log[1].lead
              /\ wk[w].atSelect[l].stage = "replied"
              /\ wk[w].atSelect[l].updated < wk[w].atSelect[wk[w].log[1].lead].updated

\* C9: a failed run does not end the batch: the agent is run on every selected
\* lead, in the order selected, the batch returns no error, and the count
\* returned is the number of runs that returned no error.
C9_BatchSurvivesFailures ==
    \A w \in Workers :
        (BatchDone(w) /\ wk[w].selected # <<>>) =>
            /\ ~wk[w].batchErr
            /\ Len(wk[w].log) = Len(wk[w].selected)
            /\ \A i \in 1..Len(wk[w].selected) : wk[w].log[i].lead = wk[w].selected[i]
            /\ wk[w].processed = Cardinality({i \in 1..Len(wk[w].log) : wk[w].log[i].ok})

C9_Witness ==
    \E w \in Workers :
        /\ BatchDone(w)
        /\ Len(wk[w].log) = 2
        /\ ~wk[w].log[1].ok
        /\ wk[w].log[2].ok
        /\ wk[w].processed = 1

----------------------------------------------------------------------------
(* Claims about overlapping runs (SpecConc)                                *)

\* C6: every write of a lead's stage moves it forward in the order
\* new < outreached < replied < qualified < proposal < won, also when runs on
\* the same lead overlap; a stored won is never replaced.
C6_StageOnlyForward ==
    [][\A l \in DOMAIN leads : rank(leads'[l].stage) >= rank(leads[l].stage)]_vars

\* two batch ticks in flight, both running the agent on the same lead, each
\* having found no Deal and created one
BothCreatedDeal(w, v) ==
    /\ w # v
    /\ wk[w].kind = "batch" /\ wk[v].kind = "batch"
    /\ wk[w].leadId = wk[v].leadId
    /\ wk[w].pc \in {"activity", "saveLead", "markFind", "markSave", "ret"}
    /\ wk[v].pc \in {"activity", "saveLead", "markFind", "markSave", "ret"}
    /\ wk[w].dealCreated /\ wk[v].dealCreated

\* C7: when two overlapping batch ticks run the agent on the same lead and
\* each passes the "no Deal exists" check before the other creates one, two
\* Deals reference that lead, and the Activities the two runs write record the
\* same fromStage -> toStage transition.
C7_OverlappingTicksDuplicate ==
    \A w, v \in Workers :
        BothCreatedDeal(w, v) =>
            LET l == wk[w].leadId IN
            /\ Len(deals[l]) >= 2
            /\ \A i \in 1..Len(deals[l]) : deals[l][i].lead = l
            /\ (wk[w].activityId # 0 /\ wk[v].activityId # 0 /\ wk[w].oldStage = wk[v].oldStage) =>
                  /\ wk[w].activityId # wk[v].activityId
                  /\ activities[l][wk[w].activityId].metadata
                        = activities[l][wk[v].activityId].metadata
                  /\ activities[l][wk[w].activityId].metadata.fromStage = wk[w].oldStage

C7_Witness ==
    \E w, v \in Workers :
        /\ BothCreatedDeal(w, v)
        /\ wk[w].selected = wk[v].selected
        /\ wk[w].activityId # 0 /\ wk[v].activityId # 0
        /\ wk[w].oldStage = "outreached" /\ wk[v].oldStage = "outreached"
        /\ Len(deals[wk[w].leadId]) = 2
        /\ Len(activities[wk[w].leadId]) = 3

----------------------------------------------------------------------------
(* Import: the dedup pass of importApifyDubaiEcommerceCSuite                *)

MaxCands == 3          \* candidates extracted from one payload

Bar == "|"

EmailPool == {<<>>, <<"a">>, <<Space, "A">>}
NamePool == {<<>>, <<"b">>, <<"b", Bar>>}
CompanyPool == {<<>>, <<"c">>, <<Bar, "c">>}

CandidatePool == [Email : EmailPool, FullName : NamePool, CompanyName : CompanyPool]

\* a key that compares the text as written, without lower-casing
DedupKeyCaseSensitive(c) ==
    IF TrimSpace(c.Email) # <<>>
    THEN <<"email:">> \o TrimSpace(c.Email)
    ELSE <<"name_company:">> \o TrimSpace(c.FullName) \o <<Bar>> \o TrimSpace(c.CompanyName)

\* the key k of a candidate, a string
DedupKey(c) ==
    IF TrimSpace(c.Email) # <<>>
    THEN <<"email:">> \o ToLower(TrimSpace(c.Email))
    ELSE <<"name_company:">> \o ToLower(TrimSpace(c.FullName)) \o <<Bar>>
             \o ToLower(TrimSpace(c.CompanyName))

EmptyKey == <<"name_company:", Bar>>

\* the loop over the candidates, with the map seen and the slice deduped
RECURSIVE DedupLoop(_, _, _, _)
DedupLoop(cands, i, seen, out) ==
    IF i > Len(cands) THEN out
    ELSE LET k == DedupKey(cands[i]) IN
         IF k = EmptyKey THEN DedupLoop(cands, i + 1, seen, out)
         ELSE IF k \in seen THEN DedupLoop(cands, i + 1, seen, out)
         ELSE DedupLoop(cands, i + 1, seen \cup {k}, Append(out, cands[i]))

InitDedup ==
    /\ importPc = "extracted"
    /\ \E n \in 0..MaxCands : candidates \in [1..n -> CandidatePool]
    /\ deduped = <<>>
    /\ accounts = <<>> /\ imp = IdleImport
    /\ InitStoreIdle
    /\ InitPlanIdle

Dedup ==
    /\ importPc = "extracted"
    /\ deduped' = DedupLoop(candidates, 1, {}, <<>>)
    /\ importPc' = "deduped"
    /\ UNCHANGED <<candidates, accounts, imp, storeVars, planVars>>

NextDedup == Dedup

SpecDedup == InitDedup /\ [][NextDedup]_vars

\* strictly increasing maps of the retained positions into the input
Embeddings(n, m) == {f \in [1..n -> 1..m] : \A i, j \in 1..n : i < j => f[i] < f[j]}

IsSubsequence(out, in) ==
    \E f \in Embeddings(Len(out), Len(in)) : \A i \in 1..Len(out) : out[i] = in[f[i]]

Blank(s) == TrimSpace(s) = <<>>

\* the key as the claim describes it: the email, or the pair of names
PairKey(c) ==
    IF ~Blank(c.Email)
    THEN <<"email", ToLower(TrimSpace(c.Email))>>
    ELSE <<"pair", ToLower(TrimSpace(c.FullName)), ToLower(TrimSpace(c.CompanyName))>>

\* the key as one string: the names joined by a bar
JoinedKey(c) ==
    IF ~Blank(c.Email)
    THEN <<"email:">> \o ToLower(TrimSpace(c.Email))
    ELSE <<"name_company:">> \o ToLower(TrimSpace(c.FullName)) \o <<"|">>
             \o ToLower(TrimSpace(c.CompanyName))

AllBlank(c) == Blank(c.Email) /\ Blank(c.FullName) /\ Blank(c.CompanyName)

\* the input positions that are the first of their key
FirstOfPairKey(i) == \A j \in 1..(i - 1) : PairKey(candidates[j]) # PairKey(candidates[i])
FirstOfJoinedKey(i) == \A j \in 1..(i - 1) : JoinedKey(candidates[j]) # JoinedKey(candidates[i])

\* C10 as stated: the retained list is a subsequence of the input, has no two
\* candidates with the same (email or name-pair) key, and keeps for every key
\* the first input candidate that has it
C10_FirstPerPairKey ==
    importPc = "deduped" =>
        /\ IsSubsequence(deduped, candidates)
        /\ \A i, j \in 1..Len(deduped) : i # j => PairKey(deduped[i]) # PairKey(deduped[j])
        /\ \A i \in 1..Len(candidates) :
              FirstOfPairKey(i) =>
                  \E j \in 1..Len(deduped) : deduped[j] = candidates[i]

\* C10 (amended): the key is "email:" + the trimmed lower-cased email when the
\* email is non-blank, otherwise "name_company:" + the trimmed lower-cased
\* fullName + "|" + the trimmed lower-cased companyName, compared as one
\* string. Candidates whose email, fullName and companyName are all blank are
\* dropped. The retained list is exactly the input candidates that are not
\* all-blank and are the first of their key, in input order; so it has no two
\* candidates with the same key, and emails differing only in case collapse
\* to the first.
C10_FirstPerJoinedKey ==
    importPc = "deduped" =>
        LET kept == {i \in 1..Len(candidates) :
                        ~AllBlank(candidates[i]) /\ FirstOfJoinedKey(i)}
        IN  /\ Len(deduped) = Cardinality(kept)
            /\ \E f \in Embeddings(Len(deduped), Len(candidates)) :
                  /\ {f[i] : i \in 1..Len(deduped)} = kept
                  /\ \A i \in 1..Len(deduped) : deduped[i] = candidates[f[i]]
            /\ \A i, j \in 1..Len(deduped) :
                  i # j => JoinedKey(deduped[i]) # JoinedKey(deduped[j])

C10_Witness ==
    /\ importPc = "deduped"
    /\ Len(candidates) = 3
    /\ candidates[1].Email = <<Space, "A">>
    /\ candidates[2].Email = <<>> /\ ~Blank(candidates[2].FullName)
    /\ candidates[3].Email = <<"a">>
    /\ deduped = <<candidates[1], candidates[2]>>

----------------------------------------------------------------------------
(* Import: the account and lead upsert of importApifyDubaiEcommerceCSuite  *)

MaxImportCands == 2    \* candidates carried by one response
MaxImports == 2        \* import calls in a behaviour

Scheme == "://"
Slash == "/"
Www == "www."

RECURSIVE IndexOf(_, _, _)
IndexOf(s, tok, i) ==
    IF i > Len(s) THEN 0 ELSE IF s[i] = tok THEN i ELSE IndexOf(s, tok, i + 1)

\* domainFromWebsite, on a site written as tokens: a scheme name, "://",
\* "www.", the letters of the host, "/" and the letters of the path
domainFromWebsite(site) ==
    LET t == TrimSpace(site)
        u == IF IndexOf(t, Scheme, 1) = 0 THEN <<"https", Scheme>> \o t ELSE t
        afterScheme == SubSeq(u, IndexOf(u, Scheme, 1) + 1, Len(u))
        cut == IndexOf(afterScheme, Slash, 1)
        hostname == IF cut = 0 THEN afterScheme ELSE SubSeq(afterScheme, 1, cut - 1)
        host == TrimSpace(ToLower(hostname))
    IN  IF t = <<>> THEN <<>>
        ELSE IF \E i \in 1..Len(hostname) : hostname[i] = Space THEN <<>>
        ELSE IF host # <<>> /\ Head(host) = Www THEN Tail(host) ELSE host

Cand(email, name, company, job, linkedin, phone, site) ==
    [Email |-> email, FullName |-> name, CompanyName |-> company, JobTitle |-> job,
     Linkedin |-> linkedin, Phone |-> phone, CompanyWebsite |-> site,
     CompanyLinkedin |-> <<>>]

\* the candidates a response can carry
ImportPool ==
    {Cand(<<"a">>, <<"b">>, <<"c">>, <<"x">>, <<>>, <<>>, <<Www, "B", Slash, "p">>),
     Cand(<<>>, <<"b", Space>>, <<"c">>, <<"y">>, <<"k", Space>>, <<"7">>, <<>>),
     Cand(<<"a">>, <<"B">>, <<"c">>, <<>>, <<Space>>, <<Space>>, <<>>),
     Cand(<<Space, "A">>, <<"b">>, <<"C">>, <<>>, <<>>, <<Space>>, <<>>),
     Cand(<<>>, <<>>, <<Space>>, <<"x">>, <<>>, <<>>, <<>>),
     Cand(<<"a">>, <<Space>>, <<"c">>, <<>>, <<>>, <<>>, <<>>),
     Cand(<<>>, <<"b">>, <<>>, <<>>, <<>>, <<>>, <<>>)}

MinOfSet(S) == CHOOSE x \in S : \A y \in S : x <= y

\* app.FindFirstRecordByFilter: the first record, in insertion order, that
\* the filter matches; 0 for sql.ErrNoRows
FirstMatch(S) == IF S = {} THEN 0 ELSE MinOfSet(S)

\* a lookup that compares the names without regard to letter case
FindAccountByNameFolded(accs, name) ==
    FirstMatch({i \in 1..Len(accs) : ToLower(accs[i].name) = ToLower(name)})

FindAccountByName(accs, name) == FirstMatch({i \in 1..Len(accs) : accs[i].name = name})

FindLeadByEmail(ls, email) == FirstMatch({l \in DOMAIN ls : ls[l].email = email})

FindLeadByNameCompany(ls, name, company) ==
    FirstMatch({l \in DOMAIN ls : ls[l].name = name /\ ls[l].company = company})

NewAccount(companyName, companyWebsite) ==
    [name |-> companyName, domain |-> domainFromWebsite(companyWebsite)]

\* a new lead that starts in the stage lost
NewLeadLost ==
    [name |-> <<>>, company |-> <<>>, stage |-> "lost",
     email |-> <<>>, account |-> 0, job_title |-> <<>>, phone |-> <<>>,
     linkedin |-> <<>>, score |-> 0, agent_state |-> Nil, updated |-> 0]

\* core.NewRecord(leads) with stage and score set
NewLead ==
    [name |-> <<>>, company |-> <<>>, stage |-> "new",
     email |-> <<>>, account |-> 0, job_title |-> <<>>, phone |-> <<>>,
     linkedin |-> <<>>, score |-> 0, agent_state |-> Nil, updated |-> 0]

\* a merge that writes every candidate field, blank or not
MergeLeadOverwriting(lead, accountId, c) ==
    [lead EXCEPT !.name = TrimSpace(c.FullName),
                 !.email = TrimSpace(c.Email),
                 !.company = TrimSpace(c.CompanyName),
                 !.account = accountId,
                 !.job_title = TrimSpace(c.JobTitle),
                 !.phone = TrimSpace(c.Phone),
                 !.linkedin = TrimSpace(c.Linkedin)]

\* a merge that puts the matched lead back at the start of the pipeline
MergeLeadResetting(lead, accountId, c) ==
    [lead EXCEPT !.name = TrimSpace(c.FullName),
                 !.email = IF TrimSpace(c.Email) # <<>> THEN TrimSpace(c.Email) ELSE @,
                 !.company = TrimSpace(c.CompanyName),
                 !.account = accountId,
                 !.job_title = IF TrimSpace(c.JobTitle) # <<>> THEN TrimSpace(c.JobTitle) ELSE @,
                 !.phone = IF TrimSpace(c.Phone) # <<>> THEN TrimSpace(c.Phone) ELSE @,
                 !.linkedin = IF TrimSpace(c.Linkedin) # <<>> THEN TrimSpace(c.Linkedin) ELSE @,
                 !.stage = "new", !.score = 0]

\* the lead.Set calls of upsertLead
MergeLead(lead, accountId, c) ==
    [lead EXCEPT !.name = TrimSpace(c.FullName),
                 !.email = IF TrimSpace(c.Email) # <<>> THEN TrimSpace(c.Email) ELSE @,
                 !.company = TrimSpace(c.CompanyName),
                 !.account = accountId,
                 !.job_title = IF TrimSpace(c.JobTitle) # <<>> THEN TrimSpace(c.JobTitle) ELSE @,
                 !.phone = IF TrimSpace(c.Phone) # <<>> THEN TrimSpace(c.Phone) ELSE @,
                 !.linkedin = IF TrimSpace(c.Linkedin) # <<>> THEN TrimSpace(c.Linkedin) ELSE @]

\* a filter that skips only candidates lacking both names
IsSkippedBoth(c) == TrimSpace(c.FullName) = <<>> /\ TrimSpace(c.CompanyName) = <<>>

IsSkipped(c) == TrimSpace(c.FullName) = <<>> \/ TrimSpace(c.CompanyName) = <<>>

\* counts that report every reconciled lead as created
ImportCountsAllCreated(r, total) ==
    [ok |-> TRUE, createdLeads |-> r.createdLeads + r.updatedLeads, updatedLeads |-> 0,
     skipped |-> r.skipped, total |-> total]

ImportCounts(r, total) ==
    [ok |-> TRUE, createdLeads |-> r.createdLeads, updatedLeads |-> r.updatedLeads,
     skipped |-> r.skipped, total |-> total]

AccountsAndLeads == [leads |-> leads, accounts |-> accounts]

agentVars == <<deals, activities, wk, runBudget, hist>>

\* a call begins: what it finds in the store, and its place among the calls
BeginImport(repeat) ==
    [IdleImport EXCEPT !.calls = imp.calls + 1, !.fromEmpty = imp.fromEmpty,
                       !.repeat = repeat, !.atStart = AccountsAndLeads]

\* POST /apify/import: the request to the actor succeeded and its payload
\* yielded these candidates
StartImport(cands) ==
    /\ importPc = "idle"
    /\ imp.calls < MaxImports
    /\ candidates' = cands
    /\ deduped' = <<>>
    /\ importPc' = "extracted"
    /\ imp' = BeginImport(FALSE)
    /\ UNCHANGED <<accounts, storeVars, planVars>>

\* POST /apify/import again, the actor answering as it did to the call before
RepeatImport ==
    /\ importPc = "done"
    /\ imp.calls < MaxImports
    /\ deduped' = <<>>
    /\ importPc' = "extracted"
    /\ imp' = BeginImport(TRUE)
    /\ UNCHANGED <<candidates, accounts, storeVars, planVars>>

\* the handler answers with the counts or with the error
ImportReturn ==
    /\ importPc \in {"done", "failed"}
    /\ importPc' = "idle"
    /\ candidates' = <<>>
    /\ deduped' = <<>>
    /\ imp' = [IdleImport EXCEPT !.calls = imp.calls, !.fromEmpty = imp.fromEmpty]
    /\ UNCHANGED <<accounts, storeVars, planVars>>

\* the head of the loop over deduped: the skip filter, and the return of the
\* counts after the last candidate
ImportLoop ==
    /\ importPc = "deduped"
    /\ IF imp.i = Len(deduped)
       THEN /\ imp' = [imp EXCEPT !.res = ImportCounts(imp, Len(deduped))]
            /\ importPc' = "done"
       ELSE IF IsSkipped(deduped[imp.i + 1])
       THEN /\ imp' = [imp EXCEPT !.skipped = @ + 1, !.i = @ + 1]
            /\ importPc' = "deduped"
       ELSE /\ imp' = imp
            /\ importPc' = "accFind"
    /\ UNCHANGED <<candidates, deduped, accounts, storeVars, planVars>>

\* upsertAccountByName: the check of the trimmed company name and the
\* lookup by it
AccountFind ==
    /\ importPc = "accFind"
    /\ LET companyName == TrimSpace(deduped[imp.i + 1].CompanyName)
           a == FindAccountByName(accounts, companyName)
       IN
        IF companyName = <<>>
        THEN /\ imp' = [imp EXCEPT !.res = ErrResult, !.failedAt = "missing company name"]
             /\ importPc' = "failed"
        ELSE IF a # 0
        THEN /\ imp' = [imp EXCEPT !.acc = a, !.accCreated = FALSE]
             /\ importPc' = "leadFind"
        ELSE /\ imp' = [imp EXCEPT !.acc = 0, !.accCreated = FALSE]
             /\ importPc' = "accSave"
    /\ UNCHANGED <<candidates, deduped, accounts, storeVars, planVars>>

\* upsertAccountByName: the creation after sql.ErrNoRows
AccountSave ==
    /\ importPc = "accSave"
    /\ LET c == deduped[imp.i + 1] IN
        accounts' = Append(accounts, NewAccount(TrimSpace(c.CompanyName), c.CompanyWebsite))
    /\ imp' = [imp EXCEPT !.acc = Len(accounts) + 1, !.accCreated = TRUE,
                          !.log = Append(@, [kind |-> "account", id |-> Len(accounts) + 1,
                                             cand |-> imp.i + 1, created |-> TRUE])]
    /\ importPc' = "leadFind"
    /\ UNCHANGED <<candidates, deduped, storeVars, planVars>>

\* upsertLead: the lookup by email, or by name and company
LeadFind ==
    /\ importPc = "leadFind"
    /\ LET c == deduped[imp.i + 1]
           l == IF TrimSpace(c.Email) # <<>>
                THEN FindLeadByEmail(leads, TrimSpace(c.Email))
                ELSE FindLeadByNameCompany(leads, TrimSpace(c.FullName),
                                           TrimSpace(c.CompanyName))
       IN  imp' = [imp EXCEPT !.leadId = l, !.created = (l = 0),
                              !.lead = IF l = 0 THEN NewLead ELSE leads[l]]
    /\ importPc' = "leadSave"
    /\ UNCHANGED <<candidates, deduped, accounts, storeVars, planVars>>

\* upsertLead: the lead.Set calls and app.Save(lead); then the counters
LeadSave ==
    /\ importPc = "leadSave"
    /\ LET c == deduped[imp.i + 1]
           id == IF imp.created THEN Cardinality(DOMAIN leads) + 1 ELSE imp.leadId
           rec == MergeLead(imp.lead, imp.acc, c)
       IN  /\ \E t \in SaveTimes(leads) : leads' = SaveLeadRecord(leads, id, rec, t)
           /\ deals' = IF imp.created THEN Append(deals, <<>>) ELSE deals
           /\ activities' = IF imp.created THEN Append(activities, <<>>) ELSE activities
           /\ hist' = IF imp.created THEN Append(hist, NoHistory(FALSE)) ELSE hist
           /\ imp' = [imp EXCEPT !.i = @ + 1,
                         !.createdLeads = IF imp.created THEN @ + 1 ELSE @,
                         !.updatedLeads = IF imp.created THEN @ ELSE @ + 1,
                         !.leadId = id, !.lead = rec,
                         !.log = Append(@, [kind |-> "lead", id |-> id, cand |-> imp.i + 1,
                                            created |-> imp.created])]
    /\ importPc' = "deduped"
    /\ UNCHANGED <<candidates, deduped, accounts, wk, failBudget, runBudget, planVars>>

\* an import that undoes its writes when it fails
ImportFailRollback ==
    /\ importPc \in {"accFind", "accSave", "leadFind", "leadSave"}
    /\ failBudget > 0
    /\ failBudget' = failBudget - 1
    /\ imp' = [imp EXCEPT !.res = ErrResult, !.failedAt = importPc]
    /\ importPc' = "failed"
    /\ accounts' = imp.atStart.accounts
    /\ leads' = imp.atStart.leads
    /\ UNCHANGED <<candidates, deduped, agentVars, planVars>>

\* the store operation the import is about to perform returns an error
\* (other than sql.ErrNoRows): the import returns it
ImportFail ==
    /\ importPc \in {"accFind", "accSave", "leadFind", "leadSave"}
    /\ failBudget > 0
    /\ failBudget' = failBudget - 1
    /\ imp' = [imp EXCEPT !.res = ErrResult, !.failedAt = importPc]
    /\ importPc' = "failed"
    /\ UNCHANGED <<candidates, deduped, accounts, leads, agentVars, planVars>>

ImportStep ==
    \/ Dedup
    \/ ImportLoop
    \/ AccountFind
    \/ AccountSave
    \/ LeadFind
    \/ LeadSave

\* a store an earlier import left: one account and one lead
ImportedAccount == [name |-> <<"c">>, domain |-> <<"b">>]
ImportedLead ==
    [NewLead EXCEPT !.name = <<"b">>, !.company = <<"c">>, !.email = <<"a">>,
                    !.account = 1, !.phone = <<"5">>, !.linkedin = <<"j">>,
                    !.updated = 1]

InitImport ==
    /\ importPc = "idle" /\ candidates = <<>> /\ deduped = <<>>
    /\ \E empty \in BOOLEAN :
          /\ imp = [IdleImport EXCEPT !.fromEmpty = empty]
          /\ accounts = IF empty THEN <<>> ELSE <<ImportedAccount>>
          /\ leads = IF empty THEN <<>> ELSE <<ImportedLead>>
          /\ deals = IF empty THEN <<>> ELSE <<<<>>>>
          /\ activities = IF empty THEN <<>> ELSE <<<<>>>>
          /\ hist = IF empty THEN <<>> ELSE <<NoHistory(FALSE)>>
    /\ wk = [w \in Workers |-> IdleWorker]
    /\ failBudget = MaxFailures /\ runBudget = 0
    /\ InitPlanIdle

NextImport ==
    \/ \E n \in 0..MaxImportCands : \E cands \in [1..n -> ImportPool] : StartImport(cands)
    \/ RepeatImport
    \/ ImportStep
    \/ ImportFail
    \/ ImportReturn

SpecImport == InitImport /\ [][NextImport]_vars

----------------------------------------------------------------------------
(* Claims about the import                                                 *)

BlankNameOrCompany(c) == Blank(c.FullName) \/ Blank(c.CompanyName)

\* the input positions of the first candidates of their key that lack a name
\* or a company
FirstBlankish == {i \in 1..Len(candidates) :
                     FirstOfJoinedKey(i) /\ BlankNameOrCompany(candidates[i])}

\* the positions in deduped holding the candidate
RetainedAt(c) == {j \in 1..Len(deduped) : deduped[j] = c}

\* the call wrote a record while handling the candidate
WroteFor(c) == \E k \in 1..Len(imp.log) : deduped[imp.log[k].cand] = c

\* C11 as stated: every first-of-its-key candidate with a blank fullName or a
\* blank companyName, the all-blank one included, is counted once in skipped
\* and in total and causes no Account or Lead write
C11_BlankCandidatesSkipped ==
    /\ importPc \in {"deduped", "accFind", "accSave", "leadFind", "leadSave", "done", "failed"} =>
          \A i \in FirstBlankish : ~WroteFor(candidates[i])
    /\ importPc = "done" =>
          /\ imp.res.skipped = Cardinality(FirstBlankish)
          /\ \A i \in FirstBlankish : Cardinality(RetainedAt(candidates[i])) = 1

\* C11 (amended): every first-of-its-key candidate with a blank fullName or a
\* blank companyName, unless its email, fullName and companyName are all
\* blank, is counted once in skipped and in total and causes no Account or
\* Lead write; an all-blank candidate is dropped by the dedup pass: it is
\* counted neither in skipped nor in total, and causes no write either
C11_NonEmptyBlankSkipped ==
    LET counted == {i \in FirstBlankish : ~AllBlank(candidates[i])} IN
    /\ importPc \in {"deduped", "accFind", "accSave", "leadFind", "leadSave", "done", "failed"} =>
          /\ \A k \in 1..Len(imp.log) : ~BlankNameOrCompany(deduped[imp.log[k].cand])
          /\ \A i \in 1..Len(candidates) :
                AllBlank(candidates[i]) => RetainedAt(candidates[i]) = {}
    /\ importPc = "done" =>
          /\ imp.res.skipped = Cardinality(counted)
          /\ imp.res.total = Len(deduped)
          /\ \A i \in counted : Cardinality(RetainedAt(candidates[i])) = 1

C11_Witness ==
    /\ importPc = "done"
    /\ Len(candidates) = 2
    /\ AllBlank(candidates[1])
    /\ ~Blank(candidates[2].Email) /\ Blank(candidates[2].FullName)
    /\ imp.res.skipped = 1 /\ imp.res.total = 1
    /\ AccountsAndLeads = imp.atStart

\* a lead record without its autodate field
Fields(rec) == [rec EXCEPT !.updated = 0]

\* C12: the import is idempotent: when a call is repeated with the same
\* candidates right after it succeeded, the second call reports
\* createdLeads = 0 and updatedLeads = the number of retained candidates that
\* are not skipped, creates no Account, and leaves every Account and every
\* Lead field as the first call left it
C12_ReimportIdempotent ==
    (importPc = "done" /\ imp.repeat) =>
        /\ imp.res.createdLeads = 0
        /\ imp.res.updatedLeads =
               Cardinality({j \in 1..Len(deduped) : ~BlankNameOrCompany(deduped[j])})
        /\ accounts = imp.atStart.accounts
        /\ DOMAIN leads = DOMAIN imp.atStart.leads
        /\ \A l \in DOMAIN leads \cap DOMAIN imp.atStart.leads :
              Fields(leads[l]) = Fields(imp.atStart.leads[l])

\* C13: the import never creates duplicate leads: starting from an empty
\* store, after any sequence of import calls no two stored Leads have
\* non-blank emails that are equal ignoring letter case, and no two Leads
\* without email have the same (name, company)
C13_NoLeadsWithSameKey ==
    imp.fromEmpty =>
        \A l, k \in DOMAIN leads :
            l # k =>
                /\ ~(/\ leads[l].email # <<>> /\ leads[k].email # <<>>
                     /\ ToLower(leads[l].email) = ToLower(leads[k].email))
                /\ ~(/\ leads[l].email = <<>> /\ leads[k].email = <<>>
                     /\ leads[l].name = leads[k].name
                     /\ leads[l].company = leads[k].company)

\* the value a merge leaves in a field: the stored one when the candidate's
\* is blank, the candidate's trimmed one otherwise
Merged(stored, given) == IF Blank(given) THEN stored ELSE TrimSpace(given)

\* C14: non-destructive merge: when upsertLead matches an existing Lead, each
\* of the stored job_title, phone, linkedin and email is left unchanged when
\* the candidate's value is blank or whitespace-only, and is replaced by the
\* candidate's trimmed value otherwise
C14_NonDestructiveMerge ==
    [][(importPc = "leadSave" /\ importPc' = "deduped" /\ ~imp.created) =>
          LET c == deduped[imp.i + 1]
              stored == leads[imp.leadId]
              saved == leads'[imp.leadId]
          IN  /\ saved.job_title = Merged(stored.job_title, c.JobTitle)
              /\ saved.phone = Merged(stored.phone, c.Phone)
              /\ saved.linkedin = Merged(stored.linkedin, c.Linkedin)
              /\ saved.email = Merged(stored.email, c.Email)]_vars

\* a matched Lead has just been saved: its phone was kept because the
\* candidate's was whitespace only
C14_Witness ==
    /\ importPc = "deduped" /\ imp.i > 0 /\ ~imp.created
    /\ imp.log # <<>>
    /\ imp.log[Len(imp.log)] = [kind |-> "lead", id |-> imp.leadId, cand |-> imp.i,
                                created |-> FALSE]
    /\ LET c == deduped[imp.i] IN
          /\ Blank(c.Phone) /\ c.Phone # <<>>
          /\ leads[imp.leadId].phone = <<"5">>
          /\ imp.atStart.leads[imp.leadId].phone = <<"5">>
          /\ imp.i = 1

\* the writes of the call recorded so far, by kind
LogOf(kind) == {k \in 1..Len(imp.log) : imp.log[k].kind = kind}

\* the write k is the last one of the call on its record
LastWriteOn(k) ==
    \A m \in (k + 1)..Len(imp.log) :
        ~(imp.log[m].kind = imp.log[k].kind /\ imp.log[m].id = imp.log[k].id)

\* C15: when a store operation fails while the i-th retained candidate is
\* being reconciled, the import returns the error and no counts, no record
\* was written for any later candidate, and nothing is rolled back: the
\* Accounts and Leads written for the candidates before i are in the store,
\* and so is the Account just created for candidate i when the failure came
\* from its Lead lookup or save
C15_FailureAbortsWithoutRollback ==
    importPc = "failed" =>
        LET i == imp.i + 1 IN
        /\ imp.res = ErrResult
        /\ imp.failedAt \in {"accFind", "accSave", "leadFind", "leadSave"}
        /\ \A k \in 1..Len(imp.log) :
              imp.log[k].cand < i \/ (imp.log[k].cand = i /\ imp.log[k].kind = "account")
        /\ Len(accounts) = Len(imp.atStart.accounts) + Cardinality(LogOf("account"))
        /\ Cardinality(DOMAIN leads) = Cardinality(DOMAIN imp.atStart.leads)
               + Cardinality({k \in LogOf("lead") : imp.log[k].created})
        /\ \A j \in 1..(i - 1) :
              ~BlankNameOrCompany(deduped[j]) =>
                  /\ \E a \in 1..Len(accounts) :
                        accounts[a].name = TrimSpace(deduped[j].CompanyName)
                  /\ \E k \in LogOf("lead") :
                        /\ imp.log[k].cand = j
                        /\ imp.log[k].id \in DOMAIN leads
                        /\ LastWriteOn(k) =>
                              /\ leads[imp.log[k].id].name = TrimSpace(deduped[j].FullName)
                              /\ leads[imp.log[k].id].company = TrimSpace(deduped[j].CompanyName)
        /\ (imp.accCreated /\ imp.failedAt \in {"leadFind", "leadSave"}) =>
              /\ Len(accounts) > Len(imp.atStart.accounts)
              /\ accounts[Len(accounts)].name = TrimSpace(deduped[i].CompanyName)

\* the save of the second candidate's Lead failed after the first candidate
\* was written and the second candidate's Account was created
C15_Witness ==
    /\ importPc = "failed" /\ imp.failedAt = "leadSave"
    /\ imp.i = 1 /\ imp.accCreated
    /\ Len(deduped) = 2
    /\ Len(accounts) = Len(imp.atStart.accounts) + 1
    /\ \E k \in LogOf("lead") : imp.log[k].cand = 1

\* C24: account resolve-or-create: over import calls that do not overlap, no
\* two Accounts have the same name, compared as written, and every name is
\* trimmed; no step changes an Account that exists, and a step that creates
\* an Account gives it a name no Account had (so a candidate whose company
\* is the name of an Account creates none and leaves its name and domain)
C24_AccountsByName ==
    /\ [](\A i, j \in 1..Len(accounts) :
            /\ accounts[i].name = TrimSpace(accounts[i].name)
            /\ accounts[i].name # <<>>
            /\ accounts[i].name = accounts[j].name => i = j)
    /\ [][/\ Len(accounts') \in {Len(accounts), Len(accounts) + 1}
          /\ \A i \in 1..Len(accounts) : accounts'[i] = accounts[i]
          /\ Len(accounts') > Len(accounts) =>
                /\ importPc = "accSave"
                /\ accounts'[Len(accounts')].name = TrimSpace(deduped[imp.i + 1].CompanyName)
                /\ accounts'[Len(accounts')].domain =
                      domainFromWebsite(deduped[imp.i + 1].CompanyWebsite)
          /\ (importPc = "accFind" /\ importPc' = "leadFind") =>
                /\ accounts' = accounts
                /\ accounts[imp'.acc].name = TrimSpace(deduped[imp.i + 1].CompanyName)]_vars

\* an Account created without a website was found again by a candidate that
\* carries one: it is the only Account of that name and has no domain still
C24_Witness ==
    /\ importPc = "done" /\ imp.fromEmpty
    /\ Len(accounts) = 1 /\ accounts[1] = [name |-> <<"c">>, domain |-> <<>>]
    /\ imp.res.updatedLeads = 1
    /\ \E l \in DOMAIN leads : leads[l].job_title = <<"x">> /\ leads[l].account = 1

\* the lead writes of the call that were, or were not, creations
LeadWrites(created) == {k \in LogOf("lead") : imp.log[k].created = created}

\* C25: when an import call returns its counts, createdLeads + updatedLeads +
\* skipped = total, total is the number of candidates retained by the dedup
\* pass, createdLeads is the number of Leads that exist after the call and
\* did not before it, and each retained candidate is counted once: in skipped
\* when its name or company is blank, else in createdLeads or updatedLeads
\* by the one Lead write made for it
C25_CountsAddUp ==
    (importPc = "done") =>
        /\ imp.res.ok
        /\ imp.res.createdLeads + imp.res.updatedLeads + imp.res.skipped = imp.res.total
        /\ imp.res.total = Len(deduped)
        /\ imp.res.createdLeads = Len(leads) - Len(imp.atStart.leads)
        /\ imp.res.createdLeads = Cardinality(LeadWrites(TRUE))
        /\ imp.res.updatedLeads = Cardinality(LeadWrites(FALSE))
        /\ imp.res.skipped =
              Cardinality({j \in 1..Len(deduped) : BlankNameOrCompany(deduped[j])})
        /\ \A j \in 1..Len(deduped) :
              Cardinality({k \in LogOf("lead") : imp.log[k].cand = j}) =
                  IF BlankNameOrCompany(deduped[j]) THEN 0 ELSE 1

\* a call on a store with one lead has updated that lead for one candidate
\* and created a lead for another
C25_Witness ==
    /\ importPc = "done" /\ ~imp.fromEmpty
    /\ imp.res.total = 2 /\ imp.res.createdLeads = 1 /\ imp.res.updatedLeads = 1
    /\ Len(leads) = Len(imp.atStart.leads) + 1

----------------------------------------------------------------------------
(* Further claims about the Lead Agent                                     *)

\* the run of goroutine w has returned, a store operation of it failed, and
\* no earlier run of the same batch is behind the failure count
ReturnedAfterFailure(w) ==
    wk[w].pc = "ret" /\ wk[w].faults > 0 /\ wk[w].log = <<>>

\* C16: the Lead Agent surfaces every persistence failure: when a store
\* operation of a run fails (loading the lead, finding or creating the Deal,
\* creating the Activity, saving the Lead, or setting the Deal's stage to
\* won), runLeadAgent returns an error and not a result, and the writes the
\* run had made stay in the store
C16_FailuresSurfaced ==
    \A w \in Workers :
        ReturnedAfterFailure(w) =>
            /\ wk[w].res = ErrResult
            /\ wk[w].nwrites > 0 => StoreSnapshot # wk[w].atLoad

\* the run of goroutine w has returned an error
ReturnedError(w) == wk[w].pc = "ret" /\ wk[w].res = ErrResult

\* xs continues ys by at most one record, which satisfies New
ExtendsByOne(xs, ys, New(_)) ==
    /\ Len(xs) \in {Len(ys), Len(ys) + 1}
    /\ SubSeq(xs, 1, Len(ys)) = ys
    /\ Len(xs) > Len(ys) => New(xs[Len(xs)])

\* a failed run leaves every Lead as it was; of its writes only a Deal it
\* created and an Activity it created stay
OnlyNewDealOrActivity(w) ==
    /\ leads = wk[w].atLoad.leads
    /\ DOMAIN deals = DOMAIN wk[w].atLoad.deals
    /\ DOMAIN activities = DOMAIN wk[w].atLoad.activities
    /\ \A l \in DOMAIN deals :
          LET IsNewDeal(d) == l = wk[w].leadId /\ d = NewDeal(leads[l], l)
              IsNewActivity(a) == l = wk[w].leadId /\ a.lead = l
          IN  /\ ExtendsByOne(deals[l], wk[w].atLoad.deals[l], IsNewDeal)
              /\ ExtendsByOne(activities[l], wk[w].atLoad.activities[l], IsNewActivity)

\* the run of goroutine w has returned a result, and the run before it on
\* the same lead had returned an error
RetrySucceeded(w) ==
    /\ wk[w].pc = "ret" /\ wk[w].res # Nil /\ wk[w].res.ok
    /\ wk[w].leadId \in DOMAIN hist
    /\ hist[wk[w].leadId].failed # Nil

\* the retry makes the transition the failed run had planned
SameTransition(w) ==
    LET f == hist[wk[w].leadId].failed IN
    f.planned => wk[w].res.oldStage = f.oldStage /\ wk[w].res.newStage = f.newStage

\* C21 as stated: after a run that returned an error the Leads are as before
\* and only a new Deal or a new Activity stay; a later successful retry makes
\* the same transition and reports dealCreated = false
C21_RetryCreatesNoDeal ==
    \A w \in SeqWorkers :
        /\ ReturnedError(w) => OnlyNewDealOrActivity(w)
        /\ RetrySucceeded(w) => SameTransition(w) /\ ~wk[w].res.dealCreated

\* C21: after a run that returned an error (lead not found, or a failure
\* while loading the lead, ensuring the Deal, creating the Activity or saving
\* the Lead) the stored Leads are as before the run and only a newly created
\* Deal and a newly created Activity stay; a successful retry on the same
\* lead makes the same transition and leaves the lead with no second Deal:
\* it reports dealCreated = true exactly when the new stage needs a Deal and
\* the lead had none when the retry began
C21_FailedRunKeepsLeads ==
    \A w \in SeqWorkers :
        /\ ReturnedError(w) => OnlyNewDealOrActivity(w)
        /\ RetrySucceeded(w) =>
              LET id == wk[w].leadId
                  before == Len(wk[w].atLoad.deals[id])
              IN  /\ SameTransition(w)
                  /\ wk[w].res.dealCreated =
                        (NeedsDeal(wk[w].res.newStage) /\ wk[w].res.action # "noop" /\ before = 0)
                  /\ hist[id].failed.dealCreated => ~wk[w].res.dealCreated
                  /\ Len(deals[id]) = IF wk[w].res.dealCreated THEN 1 ELSE before
                  /\ Len(deals[id]) <= 1

\* a run created the Deal and then failed; the retry has succeeded, found
\* that Deal and created none
C21_Witness ==
    \E w \in SeqWorkers :
        /\ RetrySucceeded(w)
        /\ hist[wk[w].leadId].failed.dealCreated
        /\ ~wk[w].res.dealCreated
        /\ wk[w].res.newStage = "qualified"
        /\ Len(deals[wk[w].leadId]) = 1
        /\ Len(activities[wk[w].leadId]) >= 1

\* no goroutine is inside an agent run
BetweenRuns == \A w \in Workers : wk[w].pc \in {"idle", "select", "load", "ret", "done"}

\* the deal carries the title ensureDealForLead gives
IsAgentDeal(d) ==
    /\ Len(d.title) >= Len(NewDealSuffix)
    /\ SubSeq(d.title, Len(d.title) - Len(NewDealSuffix) + 1, Len(d.title)) = NewDealSuffix

\* the lead was moved to won by the agent
WonByAgent(lead) ==
    lead.stage = "won" /\ lead.agent_state # Nil /\ lead.agent_state.new_stage = "won"

\* C20: with runs that do not overlap and no store failure, between runs a
\* Deal created by the agent is in stage qualification while its lead is
\* qualified or proposal, a Deal in stage won belongs to a lead in stage won,
\* and a lead moved to won by the agent has its Deal in stage won
C20_DealFollowsLead ==
    (BetweenRuns /\ failBudget = MaxFailures) =>
        \A l \in DOMAIN leads :
            /\ \A i \in DealsOf(deals, l) :
                  /\ (IsAgentDeal(deals[l][i]) /\ leads[l].stage \in {"qualified", "proposal"})
                        => deals[l][i].stage = "qualification"
                  /\ deals[l][i].stage \in {"qualification", "won"}
                  /\ deals[l][i].stage = "won" => leads[l].stage = "won"
            /\ WonByAgent(leads[l]) =>
                  /\ DealsOf(deals, l) # {}
                  /\ \A i \in DealsOf(deals, l) : deals[l][i].stage = "won"

\* a lead imported in stage new has been driven to won; its Deal, created by
\* the agent, is won
C20_Witness ==
    /\ BetweenRuns /\ failBudget = MaxFailures
    /\ \E l \in DOMAIN leads :
          /\ WonByAgent(leads[l])
          /\ Len(activities[l]) = 4
          /\ Len(deals[l]) = 1
          /\ IsAgentDeal(deals[l][1])
          /\ deals[l][1].stage = "won"

----------------------------------------------------------------------------
(* Import: the payload envelope (parseApifyItems) and the normalisation of *)
(* its elements (extractApifyCandidates)                                   *)

MaxItems == 2          \* elements of a payload array

\* JSON documents: null, strings and numbers by their text, arrays by their
\* elements, objects by their members; and a body that is not JSON
JNull == [t |-> "null"]
JStr(text) == [t |-> "string", text |-> text]
JNum(text) == [t |-> "number", text |-> text]
JArr(elems) == [t |-> "array", elems |-> elems]
JObj(members) == [t |-> "object", members |-> members]
NotJSON == [t |-> "invalid"]

\* encoding/json matches a member name to a struct field without regard to
\* letter case
FoldsToItems(key) == key \in {<<"items">>, <<"Items">>}

\* json.Unmarshal of a document into a []map[string]any: null leaves the
\* slice nil, an array gives one map per element (nil for a null element),
\* anything else is an error
UnmarshalMaps(doc) ==
    CASE doc.t = "null" -> [err |-> FALSE, val |-> <<>>]
      [] doc.t = "array" ->
            IF \A i \in 1..Len(doc.elems) : doc.elems[i].t \in {"object", "null"}
            THEN [err |-> FALSE,
                  val |-> [i \in 1..Len(doc.elems) |->
                              IF doc.elems[i].t = "null" THEN Nil ELSE doc.elems[i]]]
            ELSE [err |-> TRUE, val |-> <<>>]
      [] OTHER -> [err |-> TRUE, val |-> <<>>]

\* json.Unmarshal of a document into struct{ Items []map[string]any }: null
\* and an object without the member leave Items nil
UnmarshalWrapper(doc) ==
    CASE doc.t = "null" -> [err |-> FALSE, val |-> <<>>]
      [] doc.t = "object" ->
            LET keys == {k \in DOMAIN doc.members : FoldsToItems(k)} IN
            IF keys = {} THEN [err |-> FALSE, val |-> <<>>]
            ELSE UnmarshalMaps(doc.members[CHOOSE k \in keys : TRUE])
      [] OTHER -> [err |-> TRUE, val |-> <<>>]

\* an envelope parser that knows the top-level array only
parseApifyItemsArrayOnly(body) == UnmarshalMaps(body)

\* parseApifyItems: the array shape first, then the wrapper shape
parseApifyItems(body) ==
    IF ~UnmarshalMaps(body).err THEN UnmarshalMaps(body) ELSE UnmarshalWrapper(body)

\* member names are written as tokens: a prefix "csuiteProfile_" or
\* "csuiteProfile/", an index, "/" and the words of the field name
PrefixFlat == "csuiteProfile_"
PrefixIndexed == "csuiteProfile/"

Key(name) == <<name>>

\* json.Marshal of an array or an object, as far as the callers look: the
\* brackets, with a mark for what is between them
Marshal(v) ==
    IF v.t = "array"
    THEN IF Len(v.elems) = 0 THEN <<"[", "]">> ELSE <<"[", "..", "]">>
    ELSE IF DOMAIN v.members = {} THEN <<"{", "}">> ELSE <<"{", "..", "}">>

\* getString: the trimmed text of a string, the digits of a number, "" for a
\* missing or null member, the JSON text of an array or an object (a nil map
\* never gets here: items are tested before, groups are made non-nil)
getString(m, key) ==
    IF key \notin DOMAIN m THEN <<>>
    ELSE CASE m[key].t = "string" -> TrimSpace(m[key].text)
           [] m[key].t = "number" -> m[key].text
           [] m[key].t = "null" -> <<>>
           [] OTHER -> Marshal(m[key])

firstNonEmpty(a, b) == IF TrimSpace(a) # <<>> THEN TrimSpace(a) ELSE TrimSpace(b)

normalizeApifyLead(m) ==
    [FullName |-> firstNonEmpty(getString(m, Key("fullName")),
                     TrimSpace(getString(m, Key("firstName")) \o <<Space>>
                                   \o getString(m, Key("lastName")))),
     Email |-> getString(m, Key("email")),
     JobTitle |-> firstNonEmpty(getString(m, Key("jobTitle")), getString(m, Key("headline"))),
     Linkedin |-> getString(m, Key("linkedinProfile")),
     Phone |-> firstNonEmpty(getString(m, Key("mobileNumber")), getString(m, Key("phone"))),
     CompanyName |-> firstNonEmpty(getString(m, Key("companyName")),
                        getString(m, <<PrefixFlat, "companyName">>)),
     CompanyWebsite |-> getString(m, Key("companyWebsite")),
     CompanyLinkedin |-> getString(m, Key("companyLinkedin"))]

\* strconv.Atoi on the index tokens of the model; -1 stands for an error
Atoi(tok) ==
    CASE tok = <<"0">> -> 0
      [] tok = <<"1">> -> 1
      [] tok = <<"2">> -> 2
      [] OTHER -> -1

\* the group index and field name a member name contributes to, if any
Grouping(k) ==
    IF k # <<>> /\ Head(k) = PrefixFlat
    THEN [ok |-> TRUE, idx |-> 0, field |-> Tail(k)]
    ELSE IF k # <<>> /\ Head(k) = PrefixIndexed
    THEN LET rest == Tail(k)
             cut == IndexOf(rest, Slash, 1)
         IN  IF cut = 0 \/ Atoi(SubSeq(rest, 1, cut - 1)) < 0
             THEN [ok |-> FALSE, idx |-> 0, field |-> <<>>]
             ELSE [ok |-> TRUE, idx |-> Atoi(SubSeq(rest, 1, cut - 1)),
                   field |-> SubSeq(rest, cut + 1, Len(rest))]
    ELSE [ok |-> FALSE, idx |-> 0, field |-> <<>>]

\* the member names of the item that fill the field of the group
Sources(item, idx, field) ==
    {k \in DOMAIN item : Grouping(k).ok /\ Grouping(k).idx = idx /\ Grouping(k).field = field}

GroupIndexes(item) == {Grouping(k).idx : k \in {j \in DOMAIN item : Grouping(j).ok}}

GroupFields(item, idx) ==
    {Grouping(k).field : k \in {j \in DOMAIN item : Grouping(j).ok /\ Grouping(j).idx = idx}}

\* the contents one group can end with: when two member names fill the same
\* field, the one the map iteration visits last stays
GroupContents(item, idx) ==
    {f \in [GroupFields(item, idx) -> {item[k] : k \in DOMAIN item}] :
        \A fld \in GroupFields(item, idx) :
            \E k \in Sources(item, idx, fld) : f[fld] = item[k]}

\* the maps byIdx the loop over the item can build
GroupMaps(item) ==
    {g \in [GroupIndexes(item) ->
                UNION {GroupContents(item, idx) : idx \in GroupIndexes(item)}] :
        \A idx \in GroupIndexes(item) : g[idx] \in GroupContents(item, idx)}

\* a sort that puts the largest index first
RECURSIVE SortIntsDescending(_)
SortIntsDescending(S) ==
    IF S = {} THEN <<>> ELSE <<MaxOf(S)>> \o SortIntsDescending(S \ {MaxOf(S)})

\* sort.Ints
RECURSIVE SortInts(_)
SortInts(S) == IF S = {} THEN <<>> ELSE <<MinOfSet(S)>> \o SortInts(S \ {MinOfSet(S)})

\* extractApifyCandidates: the candidate lists the item (an object of the
\* payload, or nil) can yield
extractApifyCandidates(it) ==
    IF it = Nil THEN {<<>>}
    ELSE LET item == it.members IN
         IF getString(item, Key("fullName")) # <<>> \/ getString(item, Key("personId")) # <<>>
         THEN {<<normalizeApifyLead(item)>>}
         ELSE IF GroupIndexes(item) = {} THEN {<<>>}
         ELSE LET idxs == SortInts(GroupIndexes(item)) IN
              {[i \in 1..Len(idxs) |-> normalizeApifyLead(g[idxs[i]])] : g \in GroupMaps(item)}

\* the candidate lists the items can yield, item after item
RECURSIVE ExtractAll(_)
ExtractAll(its) ==
    IF its = <<>> THEN {<<>>}
    ELSE {a \o b : a \in extractApifyCandidates(Head(its)), b \in ExtractAll(Tail(its))}

\* the objects a payload is made of
DirectItem ==
    JObj((Key("fullName") :> JStr(<<"b", Space>>)) @@ (Key("email") :> JStr(<<"a">>))
         @@ (Key("companyName") :> JStr(<<"c">>)) @@ (Key("mobileNumber") :> JNum(<<"7">>)))
FlatItem ==
    JObj((<<PrefixFlat, "fullName">> :> JStr(<<"B">>))
         @@ (<<PrefixFlat, "companyName">> :> JStr(<<"c">>))
         @@ (<<PrefixIndexed, "0", Slash, "headline">> :> JStr(<<"x">>))
         @@ (<<PrefixIndexed, "1", Slash, "email">> :> JStr(<<"A">>))
         @@ (<<PrefixIndexed, "x", Slash, "email">> :> JStr(<<"a">>)))
OtherItem == JObj(Key("title") :> JStr(<<"t">>))

ElementPool == {DirectItem, FlatItem, OtherItem, JNull, JNum(<<"7">>)}

ArrayPool == {JArr(e) : e \in UNION {[1..n -> ElementPool] : n \in 0..MaxItems}}

\* the bodies the actor can answer with
PayloadPool ==
    ArrayPool
    \cup {JObj(Key("items") :> a) : a \in ArrayPool}
    \cup {JObj((Key("Items") :> JArr(<<DirectItem>>)) @@ (Key("total") :> JNum(<<"1">>))),
          JObj(Key("data") :> JArr(<<DirectItem>>)),
          JObj(Key("items") :> JNull),
          JObj(Key("items") :> JNum(<<"7">>)),
          JObj(Key("items") :> DirectItem),
          JNull, JNum(<<"7">>), JStr(<<"a">>), NotJSON}

\* POST /apify/import: the actor answers with this body
StartFetch(body) ==
    /\ importPc = "idle"
    /\ imp.calls < MaxImports
    /\ candidates' = <<>>
    /\ deduped' = <<>>
    /\ importPc' = "fetched"
    /\ imp' = [BeginImport(FALSE) EXCEPT !.payload = body]
    /\ UNCHANGED <<accounts, storeVars, planVars>>

\* POST /apify/import without APIFY_TOKEN, or the request fails or is
\* answered with a status of 400 or more
FetchFail ==
    /\ importPc = "idle"
    /\ imp.calls < MaxImports
    /\ candidates' = <<>>
    /\ deduped' = <<>>
    /\ importPc' = "failed"
    /\ imp' = [BeginImport(FALSE) EXCEPT !.res = ErrResult, !.failedAt = "fetch"]
    /\ UNCHANGED <<accounts, storeVars, planVars>>

\* items, err := parseApifyItems(body)
ParseItems ==
    /\ importPc = "fetched"
    /\ LET r == parseApifyItems(imp.payload) IN
        IF r.err
        THEN /\ imp' = [imp EXCEPT !.res = ErrResult, !.failedAt = "parse"]
             /\ importPc' = "failed"
        ELSE /\ imp' = [imp EXCEPT !.items = r.val]
             /\ importPc' = "parsed"
    /\ UNCHANGED <<candidates, deduped, accounts, storeVars, planVars>>

\* the loop appending extractApifyCandidates(item) for every item
ExtractCandidates ==
    /\ importPc = "parsed"
    /\ candidates' \in ExtractAll(imp.items)
    /\ importPc' = "extracted"
    /\ UNCHANGED <<deduped, accounts, imp, storeVars, planVars>>

InitParse ==
    /\ importPc = "idle" /\ candidates = <<>> /\ deduped = <<>>
    /\ imp = [IdleImport EXCEPT !.fromEmpty = TRUE]
    /\ accounts = <<>>
    /\ InitStoreIdle
    /\ InitPlanIdle

NextParse ==
    \/ \E body \in PayloadPool : StartFetch(body)
    \/ FetchFail
    \/ ParseItems
    \/ ExtractCandidates
    \/ ImportStep
    \/ ImportReturn

SpecParse == InitParse /\ [][NextParse]_vars

----------------------------------------------------------------------------
(* Claims about the payload envelope                                       *)

\* the body of the call has been through parseApifyItems
Parsed == imp.payload # Nil /\ importPc \notin {"idle", "fetched"}

ParseFailed ==
    /\ importPc = "failed" /\ imp.failedAt = "parse" /\ imp.res = ErrResult
    /\ candidates = <<>> /\ deduped = <<>>
    /\ AccountsAndLeads = imp.atStart

ArrayOfObjects(d) == d.t = "array" /\ \A i \in 1..Len(d.elems) : d.elems[i].t = "object"

ArrayOfObjectsOrNull(d) ==
    d.t = "array" /\ \A i \in 1..Len(d.elems) : d.elems[i].t \in {"object", "null"}

\* the elements as items: an object as it is, null as the nil map
ElementsOf(d) == [i \in 1..Len(d.elems) |-> IF d.elems[i].t = "null" THEN Nil ELSE d.elems[i]]

\* the member names of the object that spell items, in any letter case
ItemsMembers(d) == {k \in DOMAIN d.members : k = Key("items") \/ k = Key("Items")}

\* C17 as stated: an array of objects yields its elements, an object with an
\* items array yields the elements of items, and every other payload makes
\* the import fail with an error, with no candidate and no write
C17_OtherShapesFail ==
    Parsed =>
        LET d == imp.payload IN
        IF ArrayOfObjects(d)
        THEN ~ParseFailed /\ imp.items = d.elems
        ELSE IF d.t = "object" /\ ItemsMembers(d) # {}
                /\ \A k \in ItemsMembers(d) : ArrayOfObjects(d.members[k])
        THEN ~ParseFailed /\ \E k \in ItemsMembers(d) : imp.items = d.members[k].elems
        ELSE ParseFailed

\* the import went on with no item at all and, once it returned, reported
\* zeros and had written nothing
NothingToImport ==
    /\ ~ParseFailed /\ imp.items = <<>>
    /\ importPc \in {"extracted", "deduped", "done"} => candidates = <<>>
    /\ AccountsAndLeads = imp.atStart
    /\ importPc = "done" =>
          imp.res = [ok |-> TRUE, createdLeads |-> 0, updatedLeads |-> 0,
                     skipped |-> 0, total |-> 0]

\* C17 (amended): an array whose elements are objects or null yields its
\* elements (a null element is an item without candidates); an object with
\* one member named items, in any letter case, holding such an array yields
\* the elements of it; the payload null, an object with no member named
\* items and an object whose items member is null yield no item, and the
\* import then succeeds with all counts 0 and no write; every other payload
\* (invalid JSON, another scalar, an array with an element that is neither
\* an object nor null, an object whose one items member is neither null nor
\* such an array) makes the import fail with an error, with no candidate and
\* no write
C17_EnvelopeShapes ==
    Parsed =>
        LET d == imp.payload IN
        CASE ArrayOfObjectsOrNull(d) -> ~ParseFailed /\ imp.items = ElementsOf(d)
          [] d.t = "null" -> NothingToImport
          [] d.t = "object" /\ ItemsMembers(d) = {} -> NothingToImport
          [] d.t = "object" /\ Cardinality(ItemsMembers(d)) = 1 ->
                LET v == d.members[CHOOSE k \in ItemsMembers(d) : TRUE] IN
                IF v.t = "null" THEN NothingToImport
                ELSE IF ArrayOfObjectsOrNull(v) THEN ~ParseFailed /\ imp.items = ElementsOf(v)
                ELSE ParseFailed
          [] d.t = "object" -> TRUE
          [] OTHER -> ParseFailed

\* an object without items was imported: nothing to do, and no error
C17_Witness ==
    /\ importPc = "done"
    /\ imp.payload # Nil
    /\ imp.payload.t = "object" /\ ItemsMembers(imp.payload) = {}
    /\ imp.res.ok /\ imp.res.total = 0

----------------------------------------------------------------------------
(* Agent runs, batch ticks and import calls together                       *)

MaxAutoRuns == 3       \* agent runs begun in a behaviour of the automation
MaxAutoImports == 1    \* import calls in a behaviour of the automation

\* candidates for the automation: one that matches the lead of the initial
\* store by name and company, one that is new to it
AutoPool ==
    {Cand(<<>>, LeadName(1), LeadCompany(1), <<"x">>, <<>>, <<>>, <<>>),
     Cand(<<"a">>, <<"b">>, <<"c">>, <<>>, <<>>, <<>>, <<>>)}

\* the responses of the actor: one candidate of the pool each
AutoLists == {<<c>> : c \in AutoPool}

\* a store the automation has filled: a lead created by the import or by the
\* seeding, not marked lost by an operator
InitAuto ==
    /\ \E origin \in LeadOrigins \ {"lost"} :
          /\ leads = <<InitLead(1, origin, 1)>>
          /\ deals = IF origin = "seeded" THEN <<<<SeedDeal(1)>>>> ELSE <<<<>>>>
    /\ activities = <<<<>>>>
    /\ wk = [w \in Workers |-> IdleWorker]
    /\ failBudget = 0
    /\ runBudget = MaxAutoRuns
    /\ hist = <<NoHistory(FALSE)>>
    /\ accounts = <<>>
    /\ importPc = "idle" /\ candidates = <<>> /\ deduped = <<>>
    /\ imp = [IdleImport EXCEPT !.calls = MaxImports - MaxAutoImports]
    /\ InitPlanIdle

\* one goroutine runs the agent (a tick or a request at a time) while another
\* serves the import
NextAuto ==
    \/ \E w \in SeqWorkers :
          \/ StartBatch(w, CronLimit)
          \/ \E id \in DOMAIN leads : StartManual(w, id)
          \/ AgentStep(w)
    \/ \E cands \in AutoLists : StartImport(cands)
    \/ ImportStep
    \/ ImportReturn

SpecAuto == InitAuto /\ [][NextAuto]_vars

AgentStages == {"outreached", "qualified", "proposal", "won"}

\* C18: the stage lost is unreachable through automation: from a store with
\* no lost lead, no interleaving of agent runs, batch ticks and import calls
\* stores the stage lost, and every stage the Lead Agent writes is one of
\* outreached, qualified, proposal, won
C18_LostUnreachable ==
    /\ \A l \in DOMAIN leads :
          /\ leads[l].stage # "lost"
          /\ leads[l].agent_state # Nil =>
                /\ leads[l].agent_state.new_stage \in AgentStages
                /\ leads[l].stage = leads[l].agent_state.new_stage
    /\ \A w \in Workers :
          wk[w].plan # Nil => wk[w].plan.newStage \in AgentStages

\* an import call and an agent run overlapped: the import created one lead
\* and updated the other while a run moved that one on
C18_Witness ==
    /\ importPc = "done" /\ imp.res.createdLeads = 1
    /\ \E w \in Workers : wk[w].pc = "ret" /\ wk[w].res.ok /\ wk[w].nwrites > 0
    /\ \E l \in DOMAIN leads : leads[l].agent_state # Nil /\ leads[l].stage = "qualified"
    /\ \E l \in DOMAIN leads : leads[l].agent_state = Nil /\ leads[l].stage = "new"

----------------------------------------------------------------------------
(* Recurring batch ticks under sustained load                              *)

MaxPending == 4        \* leads that are neither won nor lost at one time

\* the query of the batch, as the tick issues it
SelectForTick(ls, limit) == FindPendingLeads(ls, EffectiveLimit(limit))

\* runLeadAgent(leadId) in one piece, every store operation succeeding:
\* the store after the run
runLeadAgent(st, id) ==
    LET lead == st.leads[id]
        oldStage == EffectiveStage(lead.stage)
        p == planNextStep(lead, oldStage)
        r == [plan |-> p, oldStage |-> oldStage]
        ensured == IF NeedsDeal(p.newStage) /\ FindDealByLead(st.deals, id) = 0
                   THEN [st.deals EXCEPT ![id] = Append(@, NewDeal(lead, id))]
                   ELSE st.deals
        marked == IF p.newStage = "won" /\ FindDealByLead(ensured, id) # 0
                  THEN [ensured EXCEPT ![id][FindDealByLead(ensured, id)].stage = "won"]
                  ELSE ensured
    IN  IF IsFinalized(oldStage) THEN st
        ELSE [leads |-> SaveLeadRecord(st.leads, id,
                            [lead EXCEPT !.stage = p.newStage, !.agent_state = AgentState(r)],
                            MaxUpdated(st.leads) + 1),
              deals |-> marked,
              activities |-> [st.activities EXCEPT ![id] = Append(@,
                    NewActivity(id, p.activityType, p.message,
                                TransitionMeta(p.action, oldStage, p.newStage)))]]

\* "for _, lead := range leads": the runs of one tick, in the order selected
RECURSIVE RunSelected(_, _, _)
RunSelected(st, sel, i) ==
    IF i > Len(sel) THEN st ELSE RunSelected(runLeadAgent(st, sel[i]), sel, i + 1)

\* the ids of the leads no later query returns are given up: the k-th lead
\* still pending becomes lead k
PendingIds(ls) ==
    LET E == Eligible(ls) IN
    [k \in 1..Cardinality(E) |->
        CHOOSE l \in E : Cardinality({m \in E : m < l}) = k - 1]

Relink(recs, id) == [i \in DOMAIN recs |-> [recs[i] EXCEPT !.lead = id]]

\* the part of the store the later ticks can still read or write
PendingView(st) ==
    LET ids == PendingIds(st.leads) IN
    [leads |-> Renumber([k \in DOMAIN ids |-> st.leads[ids[k]]]),
     deals |-> [k \in DOMAIN ids |-> Relink(st.deals[ids[k]], k)],
     activities |-> [k \in DOMAIN ids |-> Relink(st.activities[ids[k]], k)]]

\* the lead that has waited longest: the first of the store
Stalled == 1

\* leads the query prefers to the stalled one
NewerPending(ls) == {l \in Eligible(ls) : ls[l].updated > ls[Stalled].updated}

\* sustained load above the batch limit
Load(limit) == Cardinality(NewerPending(leads)) >= EffectiveLimit(limit)

\* a tick of the recurring job, or another caller of
\* runAgentForPendingLeads(limit), while the load lasts
BatchTick(limit) ==
    /\ Load(limit)
    /\ \E sel \in SelectForTick(leads, limit) :
          LET st == PendingView(RunSelected(StoreSnapshot, sel, 1)) IN
          /\ leads' = st.leads
          /\ deals' = st.deals
          /\ activities' = st.activities
    /\ UNCHANGED <<wk, failBudget, runBudget, hist, planVars, importVars>>

BatchTicks == \E limit \in 1..MaxLimit : BatchTick(limit)

\* between two ticks the import creates a lead (upsertLead finds none)
InsertLead ==
    /\ Cardinality(Eligible(leads)) < MaxPending
    /\ leads' = SaveLeadRecord(leads, Len(leads) + 1, ImportedLead, MaxUpdated(leads) + 1)
    /\ deals' = Append(deals, <<>>)
    /\ activities' = Append(activities, <<>>)
    /\ UNCHANGED <<wk, failBudget, runBudget, hist, planVars, importVars>>

\* a store with one lead that is not finalized and waits for its run
InitStarve ==
    /\ \E origin \in LeadOrigins \ {"lost"} :
          /\ leads = <<InitLead(Stalled, origin, 1)>>
          /\ deals = IF origin = "seeded" THEN <<<<SeedDeal(Stalled)>>>> ELSE <<<<>>>>
    /\ activities = <<<<>>>>
    /\ wk = [w \in Workers |-> IdleWorker]
    /\ failBudget = 0 /\ runBudget = 0
    /\ hist = <<>>
    /\ importPc = "idle" /\ candidates = <<>> /\ deduped = <<>>
    /\ accounts = <<ImportedAccount>> /\ imp = IdleImport
    /\ InitPlanIdle

NextStarve == BatchTicks \/ InsertLead

\* a tick can be taken: it then runs at least one lead, whose save changes the store
TickDue == \E limit \in 1..MaxLimit : Load(limit)

\* the job recurs every minute, and the load keeps arriving: weak fairness
\* of the ticks, written out with TickDue for ENABLED <<BatchTicks>>_vars,
\* and of the insertions
SpecStarve ==
    /\ InitStarve /\ [][NextStarve]_vars
    /\ ([]<>(~TickDue) \/ []<><<BatchTicks>>_vars)
    /\ WF_vars(InsertLead)

\* no run has touched the stalled lead
Untouched ==
    /\ Stalled \in Eligible(leads)
    /\ leads[Stalled].agent_state = Nil
    /\ leads[Stalled].updated = 1
    /\ activities[Stalled] = <<>>

\* C19: starvation under load is possible: in the executions in which, at
\* every tick with limit L, at least L pending leads are more recently
\* updated than the stalled lead (new leads keep arriving between the
\* ticks) and every run succeeds, the ticks recur for ever and no tick ever
\* selects the stalled lead, which keeps its stage
C19_StarvationUnderLoad ==
    /\ [](Untouched /\ leads[Stalled].stage \in {"new", "replied"})
    /\ []<><<BatchTicks>>_vars

\* the ticks have carried a later lead to the last stage before won while a
\* still later one has just arrived, and the stalled lead is where it was
C19_Witness ==
    /\ Untouched
    /\ \E l \in DOMAIN leads : leads[l].stage = "proposal" /\ Len(activities[l]) = 3
    /\ \E l \in DOMAIN leads :
          /\ l # Stalled /\ leads[l].stage = "new"
          /\ leads[l].updated = MaxUpdated(leads)

----------------------------------------------------------------------------
(* Recurring batch ticks on a fixed set of leads                           *)

NumDrainLeads == 2     \* leads in the store the ticks work off

\* agent runs from a stage to won
RunsToWon(stage) ==
    CASE stage = "new" -> 4
      [] stage = "outreached" -> 3
      [] stage = "replied" -> 3
      [] stage = "qualified" -> 2
      [] stage = "proposal" -> 1
      [] OTHER -> 0

\* the limits the ticks pass: the recurring job's, and small explicit ones
TickLimits == {CronLimit} \cup 1..MaxLimit

\* no store failure; runs are never refused for want of budget while a lead
\* is pending (RunsToWon is at most 4)
InitDrain ==
    /\ InitStore(NumDrainLeads, 0, 4 * NumDrainLeads, TRUE)
    /\ InitPlanIdle /\ InitImportIdle

\* one goroutine: ticks that do not overlap, no other caller
NextDrain ==
    \E w \in SeqWorkers :
        \/ \E limit \in TickLimits : StartBatch(w, limit)
        \/ AgentStep(w)

\* the job fires every minute and a started batch runs on
SpecDrain == InitDrain /\ [][NextDrain]_vars /\ WF_vars(NextDrain)

AllTerminal(ls) == Eligible(ls) = {}

\* every run that has saved its lead has returned
RunsCounted == \A w \in SeqWorkers : wk[w].pc \in {"idle", "select", "load", "done"}

\* C22: eventual completion without new arrivals: on a fixed set of leads,
\* with no store failure and ticks that do not overlap and recur for ever
\* with a limit of at least 1, every lead whose stage is not lost eventually
\* is in stage won and stays there (no step takes a lead out of won or into
\* lost, and in the end every lead is won or lost); no tick selects a lead
\* that is won or lost, a tick that finds every lead terminal returns 0, and
\* a lead is won after at most 4 runs: 4 from new, 3 from outreached or
\* replied, 2 from qualified, 1 from proposal
C22_EventualCompletion ==
    /\ <>[](AllTerminal(leads))
    /\ [][\A l \in DOMAIN leads :
             /\ leads[l].stage = "won" => leads'[l].stage = "won"
             /\ leads'[l].stage = "lost" => leads[l].stage = "lost"]_vars
    /\ [](\A l \in DOMAIN leads : \A k \in 1..Len(hist[l].runs) :
             /\ Len(hist[l].runs) - k + 1 <= RunsToWon(hist[l].runs[k].oldStage)
             /\ (leads[l].stage = "won" /\ RunsCounted) =>
                   Len(hist[l].runs) - k + 1 = RunsToWon(hist[l].runs[k].oldStage))
    /\ [](\A w \in SeqWorkers :
            /\ \A i \in 1..Len(wk[w].selected) :
                  wk[w].atSelect[wk[w].selected[i]].stage \notin {"won", "lost"}
            /\ (BatchDone(w) /\ AllTerminal(wk[w].atSelect)) => wk[w].processed = 0)

\* a lead that began in new and one that began in replied are both won,
\* after 4 and 3 runs, and a later tick has found nothing to do
C22_Witness ==
    /\ AllTerminal(leads)
    /\ \E l, m \in DOMAIN leads :
          /\ leads[l].stage = "won" /\ Len(hist[l].runs) = 4
          /\ leads[m].stage = "won" /\ Len(hist[m].runs) = 3
    /\ \E w \in SeqWorkers :
          BatchDone(w) /\ wk[w].selected = <<>> /\ wk[w].processed = 0
    /\ runBudget > 0

----------------------------------------------------------------------------
(* Import calls on a store the agent has worked on                         *)

SeedScore == 70        \* a score the seeding drew for the lead

\* the seeded lead with its Deal, as seeded or after one agent run on it
InitReconcile ==
    /\ \E ran \in BOOLEAN :
          LET seeded == [leads |-> <<[InitLead(1, "seeded", 1) EXCEPT !.score = SeedScore]>>,
                         deals |-> <<<<SeedDeal(1)>>>>,
                         activities |-> <<<<>>>>]
              st == IF ran THEN runLeadAgent(seeded, 1) ELSE seeded
          IN  leads = st.leads /\ deals = st.deals /\ activities = st.activities
    /\ wk = [w \in Workers |-> IdleWorker]
    /\ failBudget = 0 /\ runBudget = 0
    /\ hist = <<NoHistory(FALSE)>>
    /\ InitImportIdle
    /\ InitPlanIdle

\* import calls one after the other, no agent run
NextReconcile ==
    \/ \E n \in 0..MaxImportCands : \E cands \in [1..n -> AutoPool] : StartImport(cands)
    \/ ImportStep
    \/ ImportReturn

SpecReconcile == InitReconcile /\ [][NextReconcile]_vars

\* C23: reconciliation never resets pipeline progress: with no agent run
\* alongside, no step of an import call changes stage, score or agent_state
\* of a Lead that exists; a Lead the call creates has stage new, score 0 and
\* no agent_state; and no Deal or Activity is created or modified
C23_ProgressKept ==
    [][/\ \A l \in DOMAIN leads :
             /\ l \in DOMAIN leads'
             /\ leads'[l].stage = leads[l].stage
             /\ leads'[l].score = leads[l].score
             /\ leads'[l].agent_state = leads[l].agent_state
             /\ deals'[l] = deals[l]
             /\ activities'[l] = activities[l]
       /\ \A l \in DOMAIN leads' \ DOMAIN leads :
             /\ leads'[l].stage = "new" /\ leads'[l].score = 0
             /\ leads'[l].agent_state = Nil
             /\ deals'[l] = <<>> /\ activities'[l] = <<>>
       /\ DOMAIN deals' = DOMAIN leads' /\ DOMAIN activities' = DOMAIN leads']_vars

\* a call has updated the lead the agent had moved to qualified, which keeps
\* its stage, score, agent_state, Deal and Activity, and has created a lead
C23_Witness ==
    /\ importPc = "done"
    /\ imp.res.updatedLeads = 1 /\ imp.res.createdLeads = 1
    /\ leads[1].stage = "qualified" /\ leads[1].score = SeedScore
    /\ leads[1].agent_state # Nil
    /\ leads[1].job_title = <<"x">>
    /\ Len(deals[1]) = 1 /\ Len(activities[1]) = 1
    /\ Len(leads) = 2 /\ leads[2].stage = "new" /\ leads[2].score = 0

----------------------------------------------------------------------------
(* One payload element through extractApifyCandidates                      *)

\* the values the element can carry as fullName
FullNameValues == {JStr(<<Space>>), JStr(<<"b", Space>>), JArr(<<>>), JNull}

\* members the element can carry besides
OptionalMembers ==
    (Key("personId") :> JNum(<<"7">>))
    @@ (Key("companyName") :> JStr(<<"c">>))
    @@ (<<PrefixFlat, "fullName">> :> JStr(<<"B">>))
    @@ (<<PrefixIndexed, "0", Slash, "fullName">> :> JStr(<<"b">>))
    @@ (<<PrefixIndexed, "2", Slash, "email">> :> JStr(<<"a">>))
    @@ (<<PrefixIndexed, "1", Slash, "headline">> :> JNull)
    @@ (<<PrefixIndexed, "x", Slash, "email">> :> JStr(<<"A">>))
    @@ (<<PrefixIndexed, "2">> :> JStr(<<"k">>))
    @@ (<<PrefixIndexed, "1", Slash>> :> JStr(<<"k">>))

\* the elements of a payload: null, or an object with some of the members
ExtractPool ==
    {Nil}
    \cup {JObj([k \in S |-> OptionalMembers[k]]) : S \in SUBSET DOMAIN OptionalMembers}
    \cup {JObj((Key("fullName") :> v) @@ [k \in S |-> OptionalMembers[k]]) :
              v \in FullNameValues, S \in SUBSET DOMAIN OptionalMembers}

\* the element has been parsed out of the payload of a call
InitExtract ==
    /\ importPc = "parsed" /\ candidates = <<>> /\ deduped = <<>>
    /\ \E it \in ExtractPool :
          imp = [IdleImport EXCEPT !.calls = 1, !.fromEmpty = TRUE, !.items = <<it>>,
                                   !.atStart = [leads |-> <<>>, accounts |-> <<>>]]
    /\ accounts = <<>>
    /\ InitStoreIdle
    /\ InitPlanIdle

NextExtract == ExtractCandidates

SpecExtract == InitExtract /\ [][NextExtract]_vars

\* the element the call is extracting from
Element == imp.items[1]

HasOwnIdentity(item) ==
    getString(item, Key("fullName")) # <<>> \/ getString(item, Key("personId")) # <<>>

\* the index a member name is grouped under: 0 for csuiteProfile_<field>,
\* the number for csuiteProfile/<index>/<field>; -1 when it is ignored
IndexOfKey(k) ==
    IF Len(k) >= 1 /\ k[1] = PrefixFlat THEN 0
    ELSE IF Len(k) >= 3 /\ k[1] = PrefixIndexed /\ k[3] = Slash
              /\ k[2] \in {"0", "1", "2"}
         THEN CHOOSE n \in 0..2 : <<"0", "1", "2">>[n + 1] = k[2]
         ELSE -1

\* the field name the member name gives within its group
FieldOfKey(k) == IF k[1] = PrefixFlat THEN Tail(k) ELSE SubSeq(k, 4, Len(k))

KeysOfIndex(item, n) == {k \in DOMAIN item : IndexOfKey(k) = n}

IndexesOf(item) == {IndexOfKey(k) : k \in DOMAIN item} \ {-1}

\* c is built from the fields of group n of the item and from nothing else
BuiltFromGroup(c, item, n) ==
    LET fields == {FieldOfKey(k) : k \in KeysOfIndex(item, n)} IN
    \E g \in [fields -> {item[k] : k \in KeysOfIndex(item, n)}] :
        /\ \A f \in fields : \E k \in KeysOfIndex(item, n) : FieldOfKey(k) = f /\ g[f] = item[k]
        /\ c = normalizeApifyLead(g)

\* C26: normalizing one payload element: with a non-empty fullName or
\* personId it yields one candidate, built from the element itself; otherwise
\* its keys csuiteProfile_<field> go under index 0 and its keys
\* csuiteProfile/<index>/<field> under their index (keys with a non-numeric
\* index or without the "/" before the field are ignored; a key that ends
\* with that "/" names the empty field of its group) and it yields one
\* candidate per distinct index, in ascending order of the indexes, each built
\* from the fields of its group only; with no such key, and for a null
\* element, it yields none
C26_OneCandidatePerIndex ==
    (importPc = "extracted") =>
        IF Element = Nil THEN candidates = <<>>
        ELSE LET item == Element.members IN
             IF HasOwnIdentity(item) THEN candidates = <<normalizeApifyLead(item)>>
             ELSE /\ Len(candidates) = Cardinality(IndexesOf(item))
                  /\ \A n \in IndexesOf(item) :
                        BuiltFromGroup(
                            candidates[Cardinality({j \in IndexesOf(item) : j < n}) + 1],
                            item, n)

\* an element without a name of its own, with keys of both forms for index
\* 0, a key for index 2, a key with a non-numeric index and one without a
\* field, has yielded the candidate of index 0 and then that of index 2
C26_Witness ==
    /\ importPc = "extracted" /\ Element # Nil
    /\ ~HasOwnIdentity(Element.members)
    /\ Key("companyName") \in DOMAIN Element.members
    /\ IndexesOf(Element.members) = {0, 2}
    /\ Cardinality(KeysOfIndex(Element.members, 0)) = 2
    /\ Cardinality(KeysOfIndex(Element.members, -1)) >= 3
    /\ Len(candidates) = 2
    /\ candidates[1].FullName = <<"b">> /\ candidates[1].CompanyName = <<>>
    /\ candidates[2].Email = <<"a">> /\ candidates[2].FullName = <<>>

====
